---- MODULE Spec2Model ----
(***************************************************************************)
(* BulbaSaur Object Notation, C++ implementation (cpp-bson).               *)
(*                                                                         *)
(* Lexer::tokenize turns the text of a document into a token list, one     *)
(* line per step; BSONParser::parse runs the lexer and then builds the     *)
(* tree of maps with a context stack, one statement per step.              *)
(*                                                                         *)
(* Text is a sequence of one-character strings.  Maps live in a heap of    *)
(* objects addressed by number, as the shared_ptr<BSONMap> of the source.  *)
(***************************************************************************)
EXTENDS Integers, Sequences, FiniteSets, TLC

\* ------------------------------------------------------------------------
\* Characters and character classes
\* ------------------------------------------------------------------------
SP == " "
TAB == "\t"
CR == "\r"
LF == "\n"

\* std::isspace in the "C" locale (the vertical tab has no TLA+ spelling)
SpaceChars == {" ", "\t", "\n", "\r", "\f"}

isspace(c) == c \in SpaceChars

Digits == {"0", "1", "2", "3", "4", "5", "6", "7", "8", "9"}

Letters ==
    {"a", "b", "c", "d", "e", "f", "g", "h", "i", "j", "k", "l", "m",
     "n", "o", "p", "q", "r", "s", "t", "u", "v", "w", "x", "y", "z",
     "A", "B", "C", "D", "E", "F", "G", "H", "I", "J", "K", "L", "M",
     "N", "O", "P", "Q", "R", "S", "T", "U", "V", "W", "X", "Y", "Z"}

\* the class [a-zA-Z0-9_] of the key/value regex
IdentChars == Letters \cup Digits \cup {"_"}

\* ------------------------------------------------------------------------
\* Error messages
\* ------------------------------------------------------------------------
NoError == ""
ERR_SYNTAX == "It hurt itself in its confusion!"
ERR_INDENTATION == "The attack missed!"
ERR_TYPE == "Target is immune!"
ERR_BADGES == "Not enough badges!"
ERR_HEADER == "Status: Fainted"
ERR_TAB == "Poison Type: Tab character detected"
ERR_RESERVED == "It burns the bulb"

\* ------------------------------------------------------------------------
\* Literal texts of the format
\* ------------------------------------------------------------------------
BULBA == <<"B", "U", "L", "B", "A", "!">>
Charizard == <<"C", "h", "a", "r", "i", "z", "a", "r", "d">>
CommentMark == <<"z", "Z", "z">>
SuperEffective ==
    <<"S", "u", "p", "e", "r", "E", "f", "f", "e", "c", "t", "i", "v", "e">>
NotVeryEffective ==
    <<"N", "o", "t", "V", "e", "r", "y", "E", "f", "f", "e", "c", "t", "i", "v", "e">>
MissingNo == <<"M", "i", "s", "s", "i", "n", "g", "N", "o">>
TrueLit == <<"t", "r", "u", "e">>
FalseLit == <<"f", "a", "l", "s", "e">>
Quote == <<"\"">>
ArrayOpen == <<"<", "|">>
ArrayClose == <<"|", ">">>

\* prefix and suffix of a section header of a stage
SectionPrefix(stage) ==
    CASE stage = 1 -> <<"(", "o", ")", " ">>
      [] stage = 2 -> <<"(", "O", ")", " ">>
      [] OTHER -> <<"(", "@", ")", " ">>

SectionSuffix(stage) ==
    CASE stage = 1 -> <<" ", "(", "o", ")">>
      [] stage = 2 -> <<" ", "(", "O", ")">>
      [] OTHER -> <<" ", "(", "@", ")">>

\* ------------------------------------------------------------------------
\* std::string helpers
\* ------------------------------------------------------------------------
Min(a, b) == IF a < b THEN a ELSE b

\* str.substr(pos, count), pos 0-based; a count that is negative here is the
\* huge size_t of the source and takes the rest of the string
substr(str, pos, count) ==
    LET n == IF count < 0 THEN Len(str) - pos ELSE Min(count, Len(str) - pos)
    IN SubSeq(str, pos + 1, pos + n)

\* str.find(pat): 1-based index of the first occurrence, 0 for npos
find(str, pat) ==
    LET hits == {i \in 1..(Len(str) - Len(pat) + 1) :
                    SubSeq(str, i, i + Len(pat) - 1) = pat}
    IN IF hits = {} THEN 0 ELSE CHOOSE i \in hits : \A j \in hits : i <= j

startsWith(str, prefix) ==
    Len(str) >= Len(prefix) /\ SubSeq(str, 1, Len(prefix)) = prefix

endsWith(str, suffix) ==
    Len(str) >= Len(suffix)
    /\ SubSeq(str, Len(str) - Len(suffix) + 1, Len(str)) = suffix

\* Lexer::trim: strips spaces and tabs on both sides
trim(str) ==
    LET keep == {i \in 1..Len(str) : str[i] \notin {" ", "\t"}}
    IN IF keep = {} THEN <<>>
       ELSE LET first == CHOOSE i \in keep : \A j \in keep : i <= j
                last == CHOOSE i \in keep : \A j \in keep : i >= j
            IN SubSeq(str, first, last)

\* line.erase(find_if(rbegin, rend, !isspace).base(), end): right trim
rtrim(str) ==
    LET keep == {i \in 1..Len(str) : ~isspace(str[i])}
    IN IF keep = {} THEN <<>>
       ELSE SubSeq(str, 1, CHOOSE i \in keep : \A j \in keep : i >= j)

\* number of consecutive characters of str, from index i on, that are in S
RECURSIVE RunLength(_, _, _)
RunLength(str, i, S) ==
    IF i > Len(str) \/ str[i] \notin S THEN 0 ELSE 1 + RunLength(str, i + 1, S)

\* ------------------------------------------------------------------------
\* std::stoi and std::stod
\* ------------------------------------------------------------------------
INT_MAX == 2147483647

DigitSeq == <<"0", "1", "2", "3", "4", "5", "6", "7", "8", "9">>

DigitValue(c) == (CHOOSE k \in 1..10 : DigitSeq[k] = c) - 1

HexDigits == Digits \cup {"a", "b", "c", "d", "e", "f", "A", "B", "C", "D", "E", "F"}

\* the value of the n digits of str from index i on, negated and accumulated
\* onto acc; 1 when it leaves the range of int on the negative side
RECURSIVE NegValue(_, _, _, _)
NegValue(str, i, n, acc) ==
    IF n = 0 THEN acc
    ELSE LET d == DigitValue(str[i])
             lim == -(INT_MAX \div 10)
         IN IF acc < lim \/ (acc = lim /\ d > 8) THEN 1
            ELSE NegValue(str, i + 1, n - 1, acc * 10 - d)

\* 1 when str has a sign character at index p, else 0
SignLen(str, p) == IF p <= Len(str) /\ str[p] \in {"+", "-"} THEN 1 ELSE 0

NoInt == [ok |-> FALSE, pos |-> 0, val |-> 0]

\* the digits of stoi: b is the index of the first one, neg the sign, nd the
\* number of digits and nv their negated value
StoiDigits(b, neg, nd, nv) ==
    IF nd = 0 \/ nv = 1 \/ (~neg /\ nv < -INT_MAX) THEN NoInt
    ELSE [ok |-> TRUE, pos |-> b + nd - 1, val |-> IF neg THEN nv ELSE -nv]

StoiFrom(str, b, neg, nd) == StoiDigits(b, neg, nd, NegValue(str, b, nd, 0))

StoiSigned(str, ws, sg) ==
    StoiFrom(str, ws + sg + 1, sg = 1 /\ str[ws + 1] = "-",
             RunLength(str, ws + sg + 1, Digits))

StoiSpaced(str, ws) == StoiSigned(str, ws, SignLen(str, ws + 1))

\* std::stoi(str, &pos): strtol in base 10 with the range check of int.
\* ok = FALSE stands for invalid_argument or out_of_range.
stoi(str) == StoiSpaced(str, RunLength(str, 1, SpaceChars))

\* decimal exponent digits as a number, capped so that it stays small
ExpCap == 100000

RECURSIVE CappedValue(_, _, _, _)
CappedValue(str, i, n, acc) ==
    IF n = 0 THEN acc
    ELSE IF acc >= ExpCap THEN ExpCap
         ELSE CappedValue(str, i + 1, n - 1, acc * 10 + DigitValue(str[i]))

\* lexicographic comparison of the digit string ds, from its index i on and
\* padded with zeros, with the digit string ref: -1, 0 or 1
RECURSIVE CompareDigits(_, _, _, _)
CompareDigits(ds, i, ref, j) ==
    IF j > Len(ref) THEN 0
    ELSE LET d == IF i <= Len(ds) THEN DigitValue(ds[i]) ELSE 0
             r == DigitValue(ref[j])
         IN IF d < r THEN -1
            ELSE IF d > r THEN 1
                 ELSE CompareDigits(ds, i + 1, ref, j + 1)

\* leading digits of DBL_MAX (1.7976931348623157e308) and of DBL_MIN
\* (2.2250738585072014e-308)
DblMaxDigits ==
    <<"1", "7", "9", "7", "6", "9", "3", "1", "3", "4", "8", "6", "2", "3",
      "1", "5", "8">>
DblMinDigits ==
    <<"2", "2", "2", "5", "0", "7", "3", "8", "5", "8", "5", "0", "7", "2",
      "0", "1", "4">>
DblMaxExp10 == 309
DblMinExp10 == -307

\* whether the decimal number with mantissa digits ds (intd of them before
\* the point) and exponent ex is converted by strtod without ERANGE
DecimalInRange(ds, intd, ex) ==
    LET z == RunLength(ds, 1, {"0"})
        E == intd - z + ex
    IN IF z = Len(ds) THEN TRUE
       ELSE IF E > DblMaxExp10 \/ E < DblMinExp10 THEN FALSE
            ELSE IF E = DblMaxExp10
                 THEN CompareDigits(ds, z + 1, DblMaxDigits, 1) < 0
                 ELSE IF E = DblMinExp10
                      THEN CompareDigits(ds, z + 1, DblMinDigits, 1) >= 0
                      ELSE TRUE

ToLowerHex(c) ==
    CASE c = "A" -> "a" [] c = "B" -> "b" [] c = "C" -> "c"
      [] c = "D" -> "d" [] c = "E" -> "e" [] c = "F" -> "f" [] OTHER -> c

HexSeq ==
    <<"0", "1", "2", "3", "4", "5", "6", "7", "8", "9", "a", "b", "c", "d", "e", "f">>

HexValue(c) == (CHOOSE k \in 1..16 : HexSeq[k] = ToLowerHex(c)) - 1

\* exponents of the largest and of the smallest finite binary64 power of two
DblMaxExp2 == 1023
DblMinExp2 == -1022
DblDenormExp2 == -1074

\* number of zero digits at the end of the hex digit string hs
RECURSIVE TrailingZeros(_, _)
TrailingZeros(hs, i) ==
    IF i < 1 \/ hs[i] # "0" THEN 0 ELSE 1 + TrailingZeros(hs, i - 1)

\* whether the hexadecimal number with mantissa digits hs (hintd of them
\* before the point) and binary exponent ex is converted without ERANGE:
\* its top bit is 2^T and its lowest bit 2^L; a subnormal result raises
\* ERANGE only when it is inexact.  Exact for mantissas of at most 53 bits.
HexInRange(hs, hintd, ex) ==
    LET z == RunLength(hs, 1, {"0"})
        t == TrailingZeros(hs, Len(hs))
        first == HexValue(hs[z + 1])
        last == HexValue(hs[Len(hs) - t])
        top == IF first >= 8 THEN 3 ELSE IF first >= 4 THEN 2
               ELSE IF first >= 2 THEN 1 ELSE 0
        low == IF last % 2 = 1 THEN 0 ELSE IF last % 4 = 2 THEN 1
               ELSE IF last % 8 = 4 THEN 2 ELSE 3
        T == 4 * (hintd - z - 1) + top + ex
        L == 4 * (hintd - (Len(hs) - t)) + low + ex
    IN IF z = Len(hs) THEN TRUE
       ELSE IF T > DblMaxExp2 THEN FALSE
            ELSE IF T >= DblMinExp2 THEN TRUE
                 ELSE L >= DblDenormExp2

ToLower(c) ==
    LET up == <<"A", "B", "C", "D", "E", "F", "G", "H", "I", "J", "K", "L", "M",
                "N", "O", "P", "Q", "R", "S", "T", "U", "V", "W", "X", "Y", "Z">>
        lo == <<"a", "b", "c", "d", "e", "f", "g", "h", "i", "j", "k", "l", "m",
                "n", "o", "p", "q", "r", "s", "t", "u", "v", "w", "x", "y", "z">>
    IN IF \E k \in 1..26 : up[k] = c
       THEN lo[CHOOSE k \in 1..26 : up[k] = c] ELSE c

\* whether str holds the lower-case word w at index i, in any letter case
HasWordAt(str, i, w) ==
    /\ i + Len(w) - 1 <= Len(str)
    /\ \A k \in 1..Len(w) : ToLower(str[i + k - 1]) = w[k]

NoDouble == [ok |-> FALSE, pos |-> 0, kind |-> "none"]

Double(pos, kind) == [ok |-> TRUE, pos |-> pos, kind |-> kind]

\* the value of the ed exponent digits from index p on, with sign character
\* at index p - 1 when esg = 1
SignedExp(str, p, esg, ed) ==
    IF ed = 0 THEN 0
    ELSE IF esg = 1 /\ str[p - 1] = "-"
         THEN -CappedValue(str, p, ed, 0)
         ELSE CappedValue(str, p, ed, 0)

\* number of exponent digits after the exponent letter at index m (a letter
\* of the set letters), 0 when there is no exponent
ExpDigits(str, m, letters) ==
    IF m <= Len(str) /\ str[m] \in letters
    THEN RunLength(str, m + SignLen(str, m + 1) + 1, Digits)
    ELSE 0

\* the decimal form: ds are the mantissa digits, intd of them before the
\* point, m the index after the mantissa, ed the number of exponent digits
DecFinish(str, ds, intd, m, esg, ed) ==
    IF ~DecimalInRange(ds, intd, SignedExp(str, m + esg + 1, esg, ed)) THEN NoDouble
    ELSE Double(IF ed = 0 THEN m - 1 ELSE m + esg + ed, "dec")

DecExponent(str, ds, intd, m) ==
    DecFinish(str, ds, intd, m, SignLen(str, m + 1), ExpDigits(str, m, {"e", "E"}))

\* fr is the number of digits after the point, -1 when there is no point
DecFraction(str, b, intd, fr) ==
    IF intd = 0 /\ fr <= 0 THEN NoDouble
    ELSE IF fr < 0
         THEN DecExponent(str, SubSeq(str, b, b + intd - 1), intd, b + intd)
         ELSE DecExponent(str,
                          SubSeq(str, b, b + intd - 1)
                              \o SubSeq(str, b + intd + 1, b + intd + fr),
                          intd, b + intd + 1 + fr)

FractionDigits(str, p, digits) ==
    IF p <= Len(str) /\ str[p] = "." THEN RunLength(str, p + 1, digits) ELSE -1

DecMantissa(str, b, intd) ==
    DecFraction(str, b, intd, FractionDigits(str, b + intd, Digits))

\* the hexadecimal form, after "0x" at index b
HexFinish(str, hs, hintd, m, esg, ed) ==
    IF ~HexInRange(hs, hintd, SignedExp(str, m + esg + 1, esg, ed)) THEN NoDouble
    ELSE Double(IF ed = 0 THEN m - 1 ELSE m + esg + ed, "hex")

HexExponent(str, hs, hintd, m) ==
    HexFinish(str, hs, hintd, m, SignLen(str, m + 1), ExpDigits(str, m, {"p", "P"}))

HexFraction(str, b, hintd, fr) ==
    IF fr < 0
    THEN HexExponent(str, SubSeq(str, b + 2, b + 1 + hintd), hintd, b + 2 + hintd)
    ELSE HexExponent(str,
                     SubSeq(str, b + 2, b + 1 + hintd)
                         \o SubSeq(str, b + 3 + hintd, b + 2 + hintd + fr),
                     hintd, b + 3 + hintd + fr)

HexMantissa(str, b, hintd) ==
    HexFraction(str, b, hintd, FractionDigits(str, b + 2 + hintd, HexDigits))

\* "0x" at index b with a hexadecimal digit in the mantissa that follows
IsHexStart(str, b) ==
    /\ b + 2 <= Len(str)
    /\ str[b] = "0"
    /\ str[b + 1] \in {"x", "X"}
    /\ \/ str[b + 2] \in HexDigits
       \/ b + 3 <= Len(str) /\ str[b + 2] = "." /\ str[b + 3] \in HexDigits

\* "nan" at index b, with the n-char-sequence in parentheses if it is closed
NanEnd(str, b, np) ==
    IF b + 4 + np <= Len(str) /\ str[b + 3] = "(" /\ str[b + 4 + np] = ")"
    THEN b + 4 + np ELSE b + 2

StodBody(str, b) ==
    IF HasWordAt(str, b, <<"i", "n", "f", "i", "n", "i", "t", "y">>)
    THEN Double(b + 7, "inf")
    ELSE IF HasWordAt(str, b, <<"i", "n", "f">>)
    THEN Double(b + 2, "inf")
    ELSE IF HasWordAt(str, b, <<"n", "a", "n">>)
    THEN Double(NanEnd(str, b, RunLength(str, b + 4, IdentChars)), "nan")
    ELSE IF IsHexStart(str, b)
    THEN HexMantissa(str, b, RunLength(str, b + 2, HexDigits))
    ELSE DecMantissa(str, b, RunLength(str, b, Digits))

StodSpaced(str, ws) == StodBody(str, ws + SignLen(str, ws + 1) + 1)

\* std::stod(str, &pos): strtod.  kind is "dec", "hex", "inf" or "nan";
\* ok = FALSE stands for invalid_argument or out_of_range.
stod(str) == StodSpaced(str, RunLength(str, 1, SpaceChars))

\* ------------------------------------------------------------------------
\* Tokens (Lexer.hpp)
\* ------------------------------------------------------------------------
TokenType ==
    {"TOKEN_HEADER", "TOKEN_INDENT", "TOKEN_SECTION_OPEN", "TOKEN_SECTION_CLOSE",
     "TOKEN_IDENTIFIER", "TOKEN_VINE_WHIP", "TOKEN_STRING", "TOKEN_NUMBER",
     "TOKEN_BOOL", "TOKEN_NULL", "TOKEN_ARRAY_START", "TOKEN_ARRAY_END",
     "TOKEN_COMMA", "TOKEN_EOF"}

Token(type, literal, line, level) ==
    [type |-> type, literal |-> literal, line |-> line, level |-> level]

\* the result of a lexer routine: the tokens it pushed and the message of the
\* exception it threw, NoError when it returned
Pushed(toks) == [err |-> NoError, toks |-> toks]
Thrown(msg, toks) == [err |-> msg, toks |-> toks]

\* std::getline(ss, segment, ','): the segments of inner, in order
RECURSIVE Segments(_)
Segments(inner) ==
    IF inner = <<>> THEN <<>>
    ELSE LET k == find(inner, <<",">>)
         IN IF k = 0 THEN <<inner>>
            ELSE <<SubSeq(inner, 1, k - 1)>>
                 \o Segments(SubSeq(inner, k + 1, Len(inner)))

\* the conversion r of s did not throw and pos == s.length()
ConvertsWhole(s, r) == r.ok /\ r.pos = Len(s)

\* Lexer::tokenizeValue
RECURSIVE tokenizeValue(_, _)
RECURSIVE tokenizeSegments(_, _, _)

\* the while loop over the segments of an array interior
tokenizeSegments(segs, first, lineNum) ==
    IF segs = <<>> THEN Pushed(<<>>)
    ELSE LET comma == IF first THEN <<>>
                      ELSE <<Token("TOKEN_COMMA", <<>>, lineNum, 0)>>
             r == tokenizeValue(Head(segs), lineNum)
         IN IF r.err # NoError THEN Thrown(r.err, comma \o r.toks)
            ELSE LET rest == tokenizeSegments(Tail(segs), FALSE, lineNum)
                 IN [err |-> rest.err, toks |-> comma \o r.toks \o rest.toks]

tokenizeValue(valStr, lineNum) ==
    LET s == trim(valStr)
    IN IF s = <<>> THEN Pushed(<<>>)
       ELSE IF startsWith(s, Quote) /\ endsWith(s, Quote)
       THEN Pushed(<<Token("TOKEN_STRING", substr(s, 1, Len(s) - 2), lineNum, 0)>>)
       ELSE IF s = SuperEffective
       THEN Pushed(<<Token("TOKEN_BOOL", TrueLit, lineNum, 0)>>)
       ELSE IF s = NotVeryEffective
       THEN Pushed(<<Token("TOKEN_BOOL", FalseLit, lineNum, 0)>>)
       ELSE IF s = MissingNo
       THEN Pushed(<<Token("TOKEN_NULL", <<>>, lineNum, 0)>>)
       ELSE IF startsWith(s, ArrayOpen) /\ endsWith(s, ArrayClose)
       THEN LET inner == substr(s, 2, Len(s) - 4)
                start == <<Token("TOKEN_ARRAY_START", <<>>, lineNum, 0)>>
                r == tokenizeSegments(Segments(inner), TRUE, lineNum)
            IN IF r.err # NoError THEN Thrown(r.err, start \o r.toks)
               ELSE Pushed(start \o r.toks
                           \o <<Token("TOKEN_ARRAY_END", <<>>, lineNum, 0)>>)
       ELSE IF ConvertsWhole(s, stoi(s))
       THEN Pushed(<<Token("TOKEN_NUMBER", s, lineNum, 0)>>)
       ELSE IF ConvertsWhole(s, stod(s))
       THEN Pushed(<<Token("TOKEN_NUMBER", s, lineNum, 0)>>)
       ELSE Thrown(ERR_TYPE, <<>>)

\* the key/value regex ^([a-zA-Z0-9_]+)\s*(~{1,}>)\s*(.*)$ under regex_match:
\* matched, and the texts of groups 1 and 3
KeyValueMatch(line) ==
    LET kn == RunLength(line, 1, IdentChars)
        w1 == RunLength(line, kn + 1, SpaceChars)
        tn == RunLength(line, kn + w1 + 1, {"~"})
        gt == kn + w1 + tn + 1
        w2 == RunLength(line, gt + 1, SpaceChars)
        rest == SubSeq(line, gt + w2 + 1, Len(line))
        \* "." matches no line terminator; a rest that holds one can only be
        \* matched when the terminators all lie in the run taken by \s*
        ok == /\ kn >= 1 /\ tn >= 1
              /\ gt <= Len(line) /\ line[gt] = ">"
              /\ \A k \in 1..Len(rest) : rest[k] \notin {"\n", "\r"}
    IN [matched |-> ok,
        key |-> SubSeq(line, 1, kn),
        valStr |-> IF ok THEN rest ELSE <<>>]

\* the three tokens of a section header line
SectionTokensNoClose(line, stage, lineNum) ==
    <<Token("TOKEN_SECTION_OPEN", <<>>, lineNum, stage),
      Token("TOKEN_IDENTIFIER", substr(line, 4, Len(line) - 8), lineNum, 0)>>

SectionTokens(line, stage, lineNum) ==
    <<Token("TOKEN_SECTION_OPEN", <<>>, lineNum, stage),
      Token("TOKEN_IDENTIFIER", substr(line, 4, Len(line) - 8), lineNum, 0),
      Token("TOKEN_SECTION_CLOSE", <<>>, lineNum, stage)>>

IsSectionLine(line, stage) ==
    startsWith(line, SectionPrefix(stage)) /\ endsWith(line, SectionSuffix(stage))

\* Lexer::tokenizeLine
tokenizeLine(line, lineNum) ==
    IF IsSectionLine(line, 1) THEN Pushed(SectionTokens(line, 1, lineNum))
    ELSE IF IsSectionLine(line, 2) THEN Pushed(SectionTokens(line, 2, lineNum))
    ELSE IF IsSectionLine(line, 3) THEN Pushed(SectionTokens(line, 3, lineNum))
    ELSE LET m == KeyValueMatch(line)
         IN IF m.matched
            THEN LET head == <<Token("TOKEN_IDENTIFIER", m.key, lineNum, 0),
                               Token("TOKEN_VINE_WHIP", <<>>, lineNum, 0)>>
                     r == tokenizeValue(m.valStr, lineNum)
                 IN [err |-> r.err, toks |-> head \o r.toks]
            ELSE Thrown(ERR_SYNTAX, <<>>)

\* ------------------------------------------------------------------------
\* Lexer::tokenize, one line at a time
\* ------------------------------------------------------------------------
\* std::getline(ss, line) on the text from offset pos on: it fails when no
\* character is left, and else yields the characters up to the next line
\* feed (or to the end) and the offset after that line feed
HasLine(text, pos) == pos < Len(text)

GetLine(text, pos) ==
    LET rest == SubSeq(text, pos + 1, Len(text))
        k == find(rest, <<LF>>)
    IN IF k = 0 THEN [line |-> rest, pos |-> Len(text)]
       ELSE [line |-> SubSeq(rest, 1, k - 1), pos |-> pos + k]

\* if (!line.empty() && line.back() == '\r') line.pop_back();
StripCR(line) ==
    IF line # <<>> /\ line[Len(line)] = CR
    THEN SubSeq(line, 1, Len(line) - 1) ELSE line

StripCommentNever(line) == line

\* line = line.substr(0, commentPos) when "zZz" is found
StripComment(line) ==
    LET commentPos == find(line, CommentMark)
    IN IF commentPos # 0 THEN SubSeq(line, 1, commentPos - 1) ELSE line

\* the line as the indentation scan sees it
CleanLine(raw) == rtrim(StripComment(StripCR(raw)))

\* the indentation scan: the spaces counted and whether a tab stopped it
indentCount(line) == RunLength(line, 1, {" "})

hasTab(line) ==
    LET n == indentCount(line)
    IN n + 1 <= Len(line) /\ line[n + 1] = TAB

IndentUnit == 4

BadIndentOdd(count) == count % 2 # 0

\* if (indentCount % 4 != 0)
BadIndent(count) == count % IndentUnit # 0

HeaderLineTrimmed(raw, lineNum) ==
    IF trim(StripCR(raw)) # BULBA THEN Thrown(ERR_HEADER, <<>>)
    ELSE Pushed(<<Token("TOKEN_HEADER", BULBA, lineNum, 0)>>)

\* the body of the while loop for the first line
HeaderLine(raw, lineNum) ==
    IF StripCR(raw) # BULBA THEN Thrown(ERR_HEADER, <<>>)
    ELSE Pushed(<<Token("TOKEN_HEADER", BULBA, lineNum, 0)>>)

\* the body of the while loop for every other line
BodyLine(raw, lineNum) ==
    LET line == CleanLine(raw)
    IN IF line = <<>> THEN Pushed(<<>>)
       ELSE IF hasTab(line) THEN Thrown(ERR_TAB, <<>>)
       ELSE IF BadIndent(indentCount(line)) THEN Thrown(ERR_INDENTATION, <<>>)
       ELSE LET indent == <<Token("TOKEN_INDENT", <<>>, lineNum,
                                  indentCount(line) \div IndentUnit)>>
                r == tokenizeLine(trim(line), lineNum)
            IN [err |-> r.err, toks |-> indent \o r.toks]

\* ------------------------------------------------------------------------
\* Values and maps (BSONParser.hpp)
\* ------------------------------------------------------------------------
\* a BSONValue is [type, v]; the v of an OBJECT is the address of its map in
\* the heap, the v of an ARRAY the sequence of its elements, the v of a FLOAT
\* the text strtod converted
Value(type, v) == [type |-> type, v |-> v]

EmptyMap == <<>>

\* (*map)[key] = val on a std::map
MapPutKeepsFirst(map, key, val) ==
    IF key \in DOMAIN map THEN map
    ELSE [k \in (DOMAIN map) \cup {key} |-> IF k = key THEN val ELSE map[k]]

MapPut(map, key, val) ==
    [k \in (DOMAIN map) \cup {key} |-> IF k = key THEN val ELSE map[k]]

\* ------------------------------------------------------------------------
\* BSONParser::parseValueFromTokens
\* ------------------------------------------------------------------------
\* the conversion of a NUMBER token
IntOrFloatIgnoresPos(literal, asInt, asDouble) ==
    IF asInt.ok
    THEN [err |-> NoError, val |-> Value("INT", asInt.val)]
    ELSE IF asDouble.ok
         THEN [err |-> NoError, val |-> Value("FLOAT", literal)]
         ELSE [err |-> ERR_TYPE, val |-> Value("NULL_TYPE", 0)]

IntOrFloat(literal, asInt, asDouble) ==
    IF ConvertsWhole(literal, asInt)
    THEN [err |-> NoError, val |-> Value("INT", asInt.val)]
    ELSE IF asDouble.ok
         THEN [err |-> NoError, val |-> Value("FLOAT", literal)]
         ELSE [err |-> ERR_TYPE, val |-> Value("NULL_TYPE", 0)]

NumberValue(literal) == IntOrFloat(literal, stoi(literal), stod(literal))

RECURSIVE parseValueFromTokens(_, _)
RECURSIVE parseArrayElements(_, _, _)
RECURSIVE parseArrayElementsPrepends(_, _, _)

parseArrayElementsPrepends(toks, i, arr) ==
    IF i >= Len(toks)
    THEN [err |-> ERR_SYNTAX, val |-> Value("ARRAY", arr), i |-> i]
    ELSE IF toks[i + 1].type = "TOKEN_ARRAY_END"
    THEN [err |-> NoError, val |-> Value("ARRAY", arr), i |-> i + 1]
    ELSE IF toks[i + 1].type = "TOKEN_COMMA"
    THEN parseArrayElementsPrepends(toks, i + 1, arr)
    ELSE LET r == parseValueFromTokens(toks, i)
         IN IF r.err # NoError THEN r
            ELSE parseArrayElementsPrepends(toks, r.i, <<r.val>> \o arr)

\* the while loop of case TOKEN_ARRAY_START; i is 0-based as in the source
parseArrayElements(toks, i, arr) ==
    IF i >= Len(toks)
    THEN [err |-> ERR_SYNTAX, val |-> Value("ARRAY", arr), i |-> i]
    ELSE IF toks[i + 1].type = "TOKEN_ARRAY_END"
    THEN [err |-> NoError, val |-> Value("ARRAY", arr), i |-> i + 1]
    ELSE IF toks[i + 1].type = "TOKEN_COMMA"
    THEN parseArrayElements(toks, i + 1, arr)
    ELSE LET r == parseValueFromTokens(toks, i)
         IN IF r.err # NoError THEN r
            ELSE parseArrayElements(toks, r.i, Append(arr, r.val))

parseValueFromTokens(toks, i) ==
    IF i >= Len(toks)
    THEN [err |-> ERR_SYNTAX, val |-> Value("NULL_TYPE", 0), i |-> i]
    ELSE LET token == toks[i + 1]
         IN CASE token.type = "TOKEN_STRING" ->
                   [err |-> NoError, val |-> Value("STRING", token.literal),
                    i |-> i + 1]
              [] token.type = "TOKEN_NUMBER" ->
                   [err |-> NumberValue(token.literal).err,
                    val |-> NumberValue(token.literal).val, i |-> i + 1]
              [] token.type = "TOKEN_BOOL" ->
                   [err |-> NoError, val |-> Value("BOOL", token.literal = TrueLit),
                    i |-> i + 1]
              [] token.type = "TOKEN_NULL" ->
                   [err |-> NoError, val |-> Value("NULL_TYPE", 0), i |-> i + 1]
              [] token.type = "TOKEN_ARRAY_START" ->
                   parseArrayElements(toks, i + 1, <<>>)
              [] OTHER ->
                   [err |-> ERR_TYPE, val |-> Value("NULL_TYPE", 0), i |-> i + 1]

validateKeyNever(key) == NoError

validateKeyLowerCase(key) ==
    IF key = <<"c", "h", "a", "r", "i", "z", "a", "r", "d">> THEN ERR_RESERVED
    ELSE NoError

\* BSONParser::validateKey: the message it throws, NoError when it returns
validateKey(key) == IF key = Charizard THEN ERR_RESERVED ELSE NoError

\* ------------------------------------------------------------------------
\* BSONParser::parse, one statement at a time
\* ------------------------------------------------------------------------
Context(map, level) == [map |-> map, level |-> level]

clearNothing(stk) == stk

\* stack.clear()
clear(stk) == <<>>

PopToNothing(stk, n) == stk

\* while (stack.size() > n) stack.pop_back();
PopTo(stk, n) == IF Len(stk) > n THEN SubSeq(stk, 1, n) ELSE stk

\* the state of the parser after a statement: the message thrown (NoError
\* when the loop goes on), the stack, the heap of maps, currentLevel and i
OutcomeRewinds(e, stk, hp, lvl, idx) ==
    [err |-> e, stack |-> stk, heap |-> hp, currentLevel |-> lvl, i |-> 0]

Outcome(e, stk, hp, lvl, idx) ==
    [err |-> e, stack |-> stk, heap |-> hp, currentLevel |-> lvl, i |-> idx]

TypeAt(toks, idx) == IF idx < Len(toks) THEN toks[idx + 1].type ELSE "none"

\* Ensure we have enough badges: if (stack.size() < headerLevel)
NotEnoughBadgesNever(stk, headerLevel) == FALSE

NotEnoughBadgesOffByOne(stk, headerLevel) == Len(stk) < headerLevel - 1

NotEnoughBadges(stk, headerLevel) == Len(stk) < headerLevel

\* Indentation check: if (expectedLevel != headerLevel - 1)
WrongHeaderIndentNever(expectedLevel, headerLevel) == FALSE

WrongHeaderIndent(expectedLevel, headerLevel) ==
    expectedLevel # headerLevel - 1

\* stack.back(): the innermost open context
front(stk) == stk[1]

back(stk) == stk[Len(stk)]

\* Handle Section Header: i is at the SECTION_OPEN token
SectionStatement(toks, idx, expectedLevel, stk, hp, lvl) ==
    LET headerLevel == toks[idx + 1].level
        keyToken == toks[idx + 2]
        popped == PopTo(stk, headerLevel)
        newMap == Len(hp) + 1
        parentMap == back(popped).map
    IN IF WrongHeaderIndent(expectedLevel, headerLevel)
       THEN Outcome(ERR_INDENTATION, stk, hp, lvl, idx)
       ELSE IF NotEnoughBadges(stk, headerLevel)
       THEN Outcome(ERR_BADGES, stk, hp, lvl, idx)
       ELSE IF TypeAt(toks, idx + 1) # "TOKEN_IDENTIFIER"
       THEN Outcome(ERR_SYNTAX, stk, hp, lvl, idx + 1)
       ELSE IF validateKey(keyToken.literal) # NoError
       THEN Outcome(validateKey(keyToken.literal), stk, hp, lvl, idx + 1)
       ELSE IF TypeAt(toks, idx + 2) # "TOKEN_SECTION_CLOSE"
       THEN Outcome(ERR_SYNTAX, stk, hp, lvl, idx + 2)
       ELSE Outcome(NoError,
                    Append(popped, Context(newMap, headerLevel)),
                    [Append(hp, EmptyMap) EXCEPT ![parentMap] =
                        MapPut(hp[parentMap], keyToken.literal,
                               Value("OBJECT", newMap))],
                    headerLevel,
                    idx + 3)

DedentKeepsStack(stk, lvl, expectedLevel) == stk

DedentOneFrame(stk, lvl, expectedLevel) ==
    IF expectedLevel < lvl THEN PopTo(stk, Len(stk) - 1) ELSE stk

\* the dedent of a key/value line
Dedent(stk, lvl, expectedLevel) ==
    IF expectedLevel < lvl THEN PopTo(stk, expectedLevel + 1) ELSE stk

\* Handle Key-Value Assignment: i is at the IDENTIFIER token
KeyValueStatement(toks, idx, expectedLevel, stk, hp, lvl) ==
    LET keyToken == toks[idx + 1]
        stk2 == Dedent(stk, lvl, expectedLevel)
        lvl2 == IF expectedLevel < lvl THEN expectedLevel ELSE lvl
        r == parseValueFromTokens(toks, idx + 2)
        currentMap == back(stk2).map
    IN IF expectedLevel > lvl
       THEN Outcome(ERR_INDENTATION, stk, hp, lvl, idx)
       ELSE IF validateKey(keyToken.literal) # NoError
       THEN Outcome(validateKey(keyToken.literal), stk2, hp, lvl2, idx)
       ELSE IF TypeAt(toks, idx + 1) # "TOKEN_VINE_WHIP"
       THEN Outcome(ERR_SYNTAX, stk2, hp, lvl2, idx + 1)
       ELSE IF r.err # NoError
       THEN Outcome(r.err, stk2, hp, lvl2, r.i)
       ELSE Outcome(NoError, stk2,
                    [hp EXCEPT ![currentMap] =
                        MapPut(hp[currentMap], keyToken.literal, r.val)],
                    lvl2, r.i)

\* the statement that starts at an INDENT token: i is at that token.
\* "break" is the message of no exception: the loop ends and parse returns.
IndentStatement(toks, idx, stk, hp, lvl) ==
    LET expectedLevel == toks[idx + 1].level
        next == TypeAt(toks, idx + 1)
    IN IF idx + 1 >= Len(toks) THEN Outcome("break", stk, hp, lvl, idx + 1)
       ELSE IF next = "TOKEN_SECTION_OPEN"
       THEN SectionStatement(toks, idx + 1, expectedLevel, stk, hp, lvl)
       ELSE IF next = "TOKEN_IDENTIFIER"
       THEN KeyValueStatement(toks, idx + 1, expectedLevel, stk, hp, lvl)
       ELSE Outcome(ERR_SYNTAX, stk, hp, lvl, idx + 1)

\* ------------------------------------------------------------------------
\* Input texts
\* ------------------------------------------------------------------------
\* bound: the number of lines of a document after its header line
MaxLines == 4

Spaces(n) == [k \in 1..n |-> " "]

SectionText(stage, name) == SectionPrefix(stage) \o name \o SectionSuffix(stage)

KeyValueText(key, val) == key \o <<" ", "~", ">", " ">> \o val

\* a well-indented line: the header of the section of stage lvl + 1, or a
\* key/value line, at indent level lvl
StructLine(sec, lvl) ==
    Spaces(IndentUnit * lvl) \o
    (IF sec
     THEN SectionText(lvl + 1, IF lvl = 2 THEN <<"c">> ELSE <<"a">>)
     ELSE CASE lvl = 0 -> KeyValueText(<<"a">>, <<"1">>)
            [] lvl = 1 -> KeyValueText(<<"a">>, <<"\"", "s", "\"">>)
            [] lvl = 2 -> KeyValueText(<<"k">>, <<"1", ".", "5">>)
            [] OTHER -> KeyValueText(<<"k">>, MissingNo))

MaxStage == 3

StructLines ==
    {StructLine(TRUE, l) : l \in 0..(MaxStage - 1)}
    \cup {StructLine(FALSE, l) : l \in 0..MaxStage}

\* lines that are blank, commented, oddly indented, misplaced or reserved
OddLines ==
    {<<>>,
     Spaces(2),
     <<TAB>>,
     Spaces(2) \o CommentMark \o <<" ", "c">>,
     KeyValueText(<<"b">>, <<"2">>) \o <<" ">> \o CommentMark,
     KeyValueText(<<"b">>, <<"2">>) \o <<CR>>,
     Spaces(1) \o KeyValueText(<<"b">>, <<"2">>),
     Spaces(2) \o KeyValueText(<<"b">>, <<"2">>),
     <<TAB>> \o KeyValueText(<<"b">>, <<"2">>),
     Spaces(2) \o <<TAB>> \o KeyValueText(<<"b">>, <<"2">>),
     Spaces(4) \o <<TAB>> \o KeyValueText(<<"b">>, <<"2">>),
     KeyValueText(<<"b">>, <<"x">>),
     <<"b">>,
     SectionText(1, <<"b">>),
     SectionText(2, <<"b">>),
     SectionText(3, <<"b">>),
     Spaces(4) \o SectionText(1, <<"b">>),
     Spaces(4) \o SectionText(3, <<"b">>),
     KeyValueText(Charizard, <<"1">>),
     Spaces(4) \o KeyValueText(Charizard, <<"1">>),
     SectionText(1, Charizard),
     SectionText(2, Charizard),
     Spaces(4) \o SectionText(2, Charizard),
     Spaces(8) \o SectionText(3, Charizard)}

\* value texts: strings, keywords in both spellings, arrays that nest or hold
\* commas, empty segments, and numbers in the forms of stoi and stod
ValueTexts ==
    {<<>>,
     <<"\"">>,
     <<"\"", "\"">>,
     <<"\"", "a", " ", "z", "Z", "z", " ", "b", "\"">>,
     <<"s", "u", "p", "e", "r", "e", "f", "f", "e", "c", "t", "i", "v", "e">>,
     <<"S", "u", "p", "e", "r", "E", "f", "f", "e", "c", "t", "i", "v", "e">>,
     <<"N", "o", "t", "V", "e", "r", "y", "E", "f", "f", "e", "c", "t", "i", "v", "e">>,
     <<"<", "|", " ", "<", "|", " ", "1", ",", " ", "2", " ", "|", ">", ",", " ", "3", " ", "|", ">">>,
     <<"<", "|", " ", "<", "|", " ", "1", " ", "|", ">", ",", " ", "3", " ", "|", ">">>,
     <<"<", "|", " ", "\"", "a", ",", "b", "\"", " ", "|", ">">>,
     <<"<", "|", " ", "\"", "p", "\"", ",", " ", "\"", "q", "\"", " ", "|", ">">>,
     <<"<", "|", " ", "1", ",", " ", "x", " ", "|", ">">>,
     <<"<", "|", " ", "1", ",", ",", " ", "2", " ", "|", ">">>,
     <<"<", "|", "|", ">">>,
     <<"<", "|", ">">>,
     <<"-", "7">>,
     <<"1", "e", "5">>,
     <<"0", "x", "1", "A">>,
     <<"9", "9", "9", "9", "9", "9", "9", "9", "9", "9", "9">>,
     <<"1", ".", "5", ".", "2">>,
     <<"1", "2", "a", "b", "c">>,
     <<"<", "|", " ", "1", ",", " ", "2", ",", " ", "|", ">">>,
     <<"<", "|", " ", "1", ".", "5", ",", " ", "M", "i", "s", "s", "i", "n", "g", "N", "o", " ", "|", ">">>,
     <<"+", "5">>,
     <<"0", "0", "7">>,
     <<"1", ".", "5">>,
     <<"2", "1", "4", "7", "4", "8", "3", "6", "4", "7">>,
     <<"2", "1", "4", "7", "4", "8", "3", "6", "4", "8">>,
     <<"-", "2", "1", "4", "7", "4", "8", "3", "6", "4", "8">>,
     <<"-", "2", "1", "4", "7", "4", "8", "3", "6", "4", "9">>,
     <<"n", "a", "n">>,
     <<"<", "|", " ", "<", "|", " ", "\"", "p", "\"", " ", "|", ">", ",", " ", "\"", "q", "\"", ",", " ", "|", ">">>}

\* key/value lines with these values
ValueLines == {<<"k", " ", "~", ">">> \o (IF v = <<>> THEN v ELSE <<" ">> \o v) :
                  v \in ValueTexts}

\* documents around a value line: alone, before another line, in a section
ValueDocs ==
    {<<l>> : l \in ValueLines}
    \cup {<<l, StructLine(FALSE, 0)>> : l \in ValueLines}
    \cup {<<StructLine(TRUE, 0), Spaces(IndentUnit) \o l>> : l \in ValueLines}

\* section lines whose name is no plain identifier: the prefix and the suffix
\* share their space, the name is empty, the name holds a space or a mark
OddSectionLines ==
    {<<"(", "o", ")", " ", "(", "o", ")">>,
     <<"(", "o", ")", " ", " ", "(", "o", ")">>,
     SectionText(1, <<"a", " ", "b">>),
     SectionText(1, <<"a", "!">>),
     <<"(", "o", ")", " ", "a", " ", "(", "O", ")">>}

\* documents of such a section line, alone and with a key/value line in it
OddSectionDocs ==
    {<<l>> : l \in OddSectionLines}
    \cup {<<l, Spaces(IndentUnit) \o StructLine(FALSE, 0)>> : l \in OddSectionLines}

\* first lines other than the header itself
OddHeaders ==
    {<<>>,
     BULBA \o <<CR>>,
     BULBA \o <<CR, CR>>,
     BULBA \o <<" ">>,
     <<" ">> \o BULBA,
     <<TAB>> \o BULBA,
     BULBA \o <<TAB>>,
     BULBA \o CommentMark,
     SubSeq(BULBA, 1, 5),
     <<"b", "u", "l", "b", "a", "!">>,
     CommentMark}

\* the lines joined, each one ended by a line feed
RECURSIVE JoinLines(_)
JoinLines(lines) ==
    IF lines = <<>> THEN <<>>
    ELSE Head(lines) \o <<LF>> \o JoinLines(Tail(lines))

\* the sequences of at most n well-indented lines that nest well when the
\* deepest open section has level cur: a header of stage S needs cur >= S - 1
\* and a key/value line at level L needs cur >= L
RECURSIVE WellNested(_, _)
WellNested(n, cur) ==
    IF n = 0 THEN {<<>>}
    ELSE {<<>>}
         \cup UNION {{<<StructLine(TRUE, l)>> \o d : d \in WellNested(n - 1, l + 1)} :
                        l \in 0..Min(cur, MaxStage - 1)}
         \cup UNION {{<<StructLine(FALSE, l)>> \o d : d \in WellNested(n - 1, l)} :
                        l \in 0..cur}

\* lines that may follow the last line chosen freely
TailLines ==
    {StructLine(FALSE, 0), StructLine(FALSE, 1),
     <<TAB>> \o KeyValueText(<<"b">>, <<"2">>)}

\* documents: well-nested lines, then any one line, then at most one more line
Docs ==
    {<<>>}
    \cup {p \o <<l>> : p \in WellNested(MaxLines - 1, 0),
                       l \in StructLines \cup OddLines}
    \cup {p \o <<l, t>> : p \in WellNested(MaxLines - 2, 0),
                          l \in StructLines \cup OddLines, t \in TailLines}

\* the texts handed to parse: the documents under the header, every line ended
\* by a line feed; the short ones without the last line feed; and texts with
\* another first line
Inputs ==
    {JoinLines(<<BULBA>> \o d) : d \in Docs \cup ValueDocs \cup OddSectionDocs}
    \cup {BULBA \o <<LF>> \o l : l \in StructLines \cup OddLines \cup ValueLines}
    \cup {BULBA}
    \cup {h \o t : h \in OddHeaders,
                   t \in {<<>>, <<LF>>, <<LF>> \o StructLine(FALSE, 0)}}

\* ------------------------------------------------------------------------
\* State
\* ------------------------------------------------------------------------
VARIABLES
    content,        \* Lexer::content, the text handed to parse
    ss,             \* tokenize: the offset of the stream ss in content
    lineNum,        \* tokenize: lineNum
    firstLine,      \* tokenize: firstLine
    tokens,         \* Lexer::tokens
    stack,          \* BSONParser::stack
    currentLevel,   \* BSONParser::currentLevel
    heap,           \* the maps made by make_shared; root is heap[1]
    root,           \* parse: root, the address of the map made at line 25
    i,              \* parse: the token cursor i
    pc,             \* where the call of parse is
    err,            \* the message of the exception parse threw
    calls           \* what the earlier calls on the same object came to

vars == <<content, ss, lineNum, firstLine, tokens, stack, currentLevel, heap,
          root, i, pc, err, calls>>

lexerVars == <<ss, lineNum, firstLine, tokens>>
parserVars == <<stack, currentLevel, heap, root, i>>

\* the address of the root map
Root == 1

\* parse(content) is called on a new BSONParser: the Lexer is constructed and
\* tokenize is entered
Init ==
    /\ content \in Inputs
    /\ ss = 0
    /\ lineNum = 0
    /\ firstLine = TRUE
    /\ tokens = <<>>
    /\ stack = <<>>
    /\ currentLevel = 0
    /\ heap = <<>>
    /\ root = 0
    /\ i = 0
    /\ pc = "tokenize"
    /\ err = NoError
    /\ calls = <<>>

\* ------------------------------------------------------------------------
\* Actions
\* ------------------------------------------------------------------------
AfterLineGoesOn(msg) == "tokenize"

\* where tokenize is after the body of its loop: no exception is caught, so
\* a throw leaves the loop and tokenize
AfterLine(msg) == IF msg = NoError THEN "tokenize" ELSE "thrown_tokenize"

\* one iteration of the while loop of tokenize
LexLine ==
    /\ pc = "tokenize"
    /\ HasLine(content, ss)
    /\ LET got == GetLine(content, ss)
           r == IF firstLine THEN HeaderLine(got.line, lineNum + 1)
                ELSE BodyLine(got.line, lineNum + 1)
       IN /\ ss' = got.pos
          /\ lineNum' = lineNum + 1
          /\ tokens' = tokens \o r.toks
          /\ firstLine' = IF r.err = NoError THEN FALSE ELSE firstLine
          /\ pc' = AfterLine(r.err)
          /\ err' = r.err
    /\ UNCHANGED <<content, parserVars, calls>>

\* getline fails: tokenize pushes TOKEN_EOF and returns, and parse makes the
\* root map (a new map, at the next free address) and resets the stack
LexEnd ==
    /\ pc = "tokenize"
    /\ ~HasLine(content, ss)
    /\ tokens' = Append(tokens, Token("TOKEN_EOF", <<>>, lineNum, 0))
    /\ heap' = Append(heap, EmptyMap)
    /\ root' = Len(heap) + 1
    /\ stack' = Append(clear(stack), Context(Len(heap) + 1, 0))
    /\ currentLevel' = 0
    /\ i' = 0
    /\ pc' = "parse"
    /\ UNCHANGED <<content, ss, lineNum, firstLine, err, calls>>

\* the loop of parse ends, at TOKEN_EOF or at the end of the tokens, and parse
\* returns *root
ParseEnd ==
    /\ pc = "parse"
    /\ TypeAt(tokens, i) \in {"TOKEN_EOF", "none"}
    /\ pc' = "returned"
    /\ UNCHANGED <<content, lexerVars, parserVars, err, calls>>

\* TOKEN_HEADER, and any token that is met outside a statement: i++
ParseSkip ==
    /\ pc = "parse"
    /\ TypeAt(tokens, i) \notin {"TOKEN_EOF", "none", "TOKEN_INDENT"}
    /\ i' = i + 1
    /\ UNCHANGED <<content, lexerVars, stack, currentLevel, heap, root, pc, err,
                   calls>>

\* the statement that starts at a TOKEN_INDENT
ParseIndent ==
    /\ pc = "parse"
    /\ TypeAt(tokens, i) = "TOKEN_INDENT"
    /\ LET r == IndentStatement(tokens, i, stack, heap, currentLevel)
       IN /\ stack' = r.stack
          /\ heap' = r.heap
          /\ currentLevel' = r.currentLevel
          /\ i' = r.i
          /\ pc' = CASE r.err = NoError -> "parse"
                     [] r.err = "break" -> "returned"
                     [] OTHER -> "thrown_parse"
          /\ err' = IF r.err = "break" THEN NoError ELSE r.err
    /\ UNCHANGED <<content, lexerVars, root, calls>>

Next == LexLine \/ LexEnd \/ ParseEnd \/ ParseSkip \/ ParseIndent

Spec == Init /\ [][Next]_vars

\* ------------------------------------------------------------------------
\* Observations used by the properties
\* ------------------------------------------------------------------------
\* the call of tokenize returned / the call of parse is over
Tokenized == pc \in {"parse", "returned", "thrown_parse"}
Parsing == pc \in {"parse", "returned"}

\* the map at address a as a tree: an OBJECT holds the tree of its map
RECURSIVE Tree(_, _)
Tree(hp, a) ==
    [k \in DOMAIN hp[a] |->
        IF hp[a][k].type = "OBJECT"
        THEN Value("OBJECT", Tree(hp, hp[a][k].v))
        ELSE hp[a][k]]

\* the number of levels of objects below the map at address a
RECURSIVE Depth(_, _)
Depth(hp, a) ==
    LET below == {Depth(hp, hp[a][k].v) + 1 :
                     k \in {x \in DOMAIN hp[a] : hp[a][x].type = "OBJECT"}}
    IN IF below = {} THEN 0 ELSE CHOOSE d \in below : \A e \in below : d >= e

\* the keys of the tree t, at any depth
RECURSIVE KeysOf(_)
KeysOf(t) ==
    (DOMAIN t)
    \cup UNION {KeysOf(t[k].v) : k \in {x \in DOMAIN t : t[x].type = "OBJECT"}}

\* the statement the parser is about to read: i is at its TOKEN_INDENT
AtStatement == pc = "parse" /\ TypeAt(tokens, i) = "TOKEN_INDENT"
AtSection == AtStatement /\ TypeAt(tokens, i + 1) = "TOKEN_SECTION_OPEN"
AtKeyValue == AtStatement /\ TypeAt(tokens, i + 1) = "TOKEN_IDENTIFIER"
StmtLevel == tokens[i + 1].level
StmtStage == tokens[i + 2].level
StmtName == tokens[i + 3].literal
StmtKey == tokens[i + 2].literal

\* the line tokenize is about to read
AtLine == pc = "tokenize" /\ HasLine(content, ss)
AtFirstLine == AtLine /\ firstLine
AtBodyLine == AtLine /\ ~firstLine
NextRaw == GetLine(content, ss).line

\* the k-th line of text as getline yields it, from offset pos on
RECURSIVE LineAt(_, _, _)
LineAt(text, pos, k) ==
    IF k = 1 THEN GetLine(text, pos).line
    ELSE LineAt(text, GetLine(text, pos).pos, k - 1)

\* ------------------------------------------------------------------------
\* C1
\* ------------------------------------------------------------------------
\* a key no line can hold: it marks a tree in which a path did not lead to
\* an object
NoSuchObject == [k \in {<<LF>>} |-> Value("NULL_TYPE", 0)]

\* the tree with key -> val stored in the object reached from the root along
\* the section names of path
RECURSIVE StoreAt(_, _, _, _)
StoreAt(t, path, key, val) ==
    IF path = <<>> THEN MapPut(t, key, val)
    ELSE IF Head(path) \notin DOMAIN t THEN NoSuchObject
    ELSE IF t[Head(path)].type # "OBJECT" THEN NoSuchObject
    ELSE [t EXCEPT ![Head(path)] =
             Value("OBJECT", StoreAt(t[Head(path)].v, Tail(path), key, val))]

\* the tree the statements of toks before index n describe, read off the
\* lines alone: opened[S] is the name of the section of stage S opened last; a
\* key/value line at level L is stored along opened[1..L], and a header of
\* stage S stores an empty object along opened[1..S-1]
RECURSIVE Described(_, _, _, _, _)
Described(toks, idx, n, t, opened) ==
    IF idx >= n THEN t
    ELSE IF toks[idx + 1].type # "TOKEN_INDENT"
    THEN Described(toks, idx + 1, n, t, opened)
    ELSE IF toks[idx + 2].type = "TOKEN_SECTION_OPEN"
    THEN Described(toks, idx + 4, n,
                   StoreAt(t, SubSeq(opened, 1, toks[idx + 2].level - 1),
                           toks[idx + 3].literal, Value("OBJECT", EmptyMap)),
                   [opened EXCEPT ![toks[idx + 2].level] = toks[idx + 3].literal])
    ELSE Described(toks, parseValueFromTokens(toks, idx + 3).i, n,
                   StoreAt(t, SubSeq(opened, 1, toks[idx + 1].level),
                           toks[idx + 2].literal,
                           parseValueFromTokens(toks, idx + 3).val),
                   opened)

\* C1: between the statements of a parse run and when parse returns, the tree
\* under the root is the tree the lines read so far describe: every key/value
\* line at level L is stored L levels below the root along the sections of
\* stages 1..L opened last, and every section of stage S is stored under its
\* name in the section of stage S-1 opened last (the root when S = 1).
C1_StoredAlongOpenSections ==
    Parsing =>
        Tree(heap, Root) =
            Described(tokens, 0, i, EmptyMap, [S \in 1..MaxStage |-> <<>>])

\* a document is returned with a key stored in a section of stage 3
C1_Witness ==
    /\ pc = "returned"
    /\ Len(stack) = MaxStage + 1
    /\ <<"k">> \in DOMAIN heap[stack[MaxStage + 1].map]

\* ------------------------------------------------------------------------
\* C2
\* ------------------------------------------------------------------------
\* frame k of the stack has level k - 1 and, from the second frame on, its
\* map is stored in the map of the frame below
StackIsChainOfStages ==
    \A k \in 1..Len(stack) :
        /\ stack[k].level = k - 1
        /\ k > 1 =>
             \E key \in DOMAIN heap[stack[k - 1].map] :
                heap[stack[k - 1].map][key] = Value("OBJECT", stack[k].map)

\* C2: in every state of a parse run and in every returned Document no object
\* lies more than 3 levels below the root, the stack never holds more than 4
\* frames, and the open sections are of stages 1, 2, ... in this order, each
\* stored in the one before: a section of stage S is opened under open
\* sections of every stage 1..S-1.
C2_NestingAtMostThree ==
    /\ Len(stack) <= MaxStage + 1
    /\ Tokenized =>
        /\ Depth(heap, Root) <= MaxStage
        /\ StackIsChainOfStages

\* a section of stage 3 has just been opened
C2_Witness ==
    /\ pc = "parse"
    /\ Len(stack) = MaxStage + 1
    /\ currentLevel = MaxStage
    /\ heap[stack[MaxStage + 1].map] = EmptyMap

\* ------------------------------------------------------------------------
\* C3
\* ------------------------------------------------------------------------
\* C3: when the parser reads a section header of stage S on a line of indent
\* level S-1 while the stack holds fewer than S frames, parse throws "Not
\* enough badges!" and returns no document.
C3_MissingAncestorThrowsBadges ==
    [][(AtSection /\ StmtLevel = StmtStage - 1 /\ Len(stack) < StmtStage)
          => (pc' = "thrown_parse" /\ err' = ERR_BADGES)]_vars

\* parse threw "Not enough badges!" at a header of stage 3 under a section of
\* stage 1
C3_Witness ==
    /\ pc = "thrown_parse"
    /\ err = ERR_BADGES
    /\ Len(stack) = 2
    /\ tokens[i + 1].level = MaxStage

\* ------------------------------------------------------------------------
\* C4
\* ------------------------------------------------------------------------
\* C4: a "(@)" section header on a line without indentation, read while no
\* section is open, makes parse throw "Not enough badges!".
C4_StageThreeAtRootThrowsBadges ==
    [][(AtSection /\ StmtStage = MaxStage /\ StmtLevel = 0 /\ Len(stack) = 1)
          => (pc' = "thrown_parse" /\ err' = ERR_BADGES)]_vars

\* ------------------------------------------------------------------------
\* C5
\* ------------------------------------------------------------------------
\* C5 as stated: when the first line getline yields differs in any way from
\* "BULBA!", tokenize throws "Status: Fainted".
C5_AnyOtherFirstLineFaints ==
    [][(AtFirstLine /\ NextRaw # BULBA)
          => (pc' = "thrown_tokenize" /\ err' = ERR_HEADER)]_vars

\* C5, amended: when the first line, with one trailing carriage return taken
\* off, differs in any way from "BULBA!", tokenize throws "Status: Fainted"
\* and returns no token list.
C5_OtherFirstLineFaints ==
    [][(AtFirstLine /\ StripCR(NextRaw) # BULBA)
          => (pc' = "thrown_tokenize" /\ err' = ERR_HEADER /\ tokens' = <<>>)]_vars

\* tokenize threw "Status: Fainted" at a first line that holds "BULBA!" and
\* more
C5_Witness ==
    /\ pc = "thrown_tokenize"
    /\ err = ERR_HEADER
    /\ lineNum = 1
    /\ find(content, BULBA) # 0

\* ------------------------------------------------------------------------
\* C6
\* ------------------------------------------------------------------------
\* C6: every token list tokenize returns holds exactly one Header token, and
\* that token is its first.
C6_HeaderTokenFirstAndOnly ==
    Tokenized =>
        /\ tokens[1].type = "TOKEN_HEADER"
        /\ Cardinality({k \in 1..Len(tokens) : tokens[k].type = "TOKEN_HEADER"}) = 1

\* ------------------------------------------------------------------------
\* C7
\* ------------------------------------------------------------------------
\* a tab lies in the run of spaces and tabs the line starts with
TabInLeadingRun(raw) ==
    \E k \in 1..RunLength(raw, 1, {" ", TAB}) : raw[k] = TAB

\* C7: when a line after the header has a tab in its leading indentation run,
\* tokenize throws "Poison Type: Tab character detected", whatever number of
\* spaces precedes the tab.
C7_TabInIndentationThrowsPoison ==
    [][(AtBodyLine /\ TabInLeadingRun(NextRaw))
          => (pc' = "thrown_tokenize" /\ err' = ERR_TAB)]_vars

\* ------------------------------------------------------------------------
\* C8
\* ------------------------------------------------------------------------
\* the lines tokenize has read after the header
BodyLinesRead == 2..lineNum

\* C8 as stated, for the accepted inputs: every line after the header starts
\* with a number of spaces that is a multiple of 4.
C8_EveryLineIndentedByFours ==
    pc = "returned" =>
        \A k \in BodyLinesRead :
            indentCount(LineAt(content, 0, k)) % IndentUnit = 0

\* C8, amended: a line after the header that still holds text after comment
\* removal and right-trimming, that starts with a number of spaces that is no
\* multiple of 4 and has no tab right after these spaces, is the line at
\* which tokenize throws "The attack missed!"; so in every input that parse
\* accepts every such line starts with a multiple of 4 spaces.
C8_TextLineIndentedByFours ==
    \A k \in BodyLinesRead :
        LET raw == LineAt(content, 0, k)
        IN (/\ CleanLine(raw) # <<>>
            /\ indentCount(raw) % IndentUnit # 0
            /\ ~hasTab(CleanLine(raw)))
           => (pc = "thrown_tokenize" /\ lineNum = k /\ err = ERR_INDENTATION)

\* tokenize threw "The attack missed!" at a line inside an open section
C8_Witness ==
    /\ pc = "thrown_tokenize"
    /\ err = ERR_INDENTATION
    /\ lineNum > 2
    /\ indentCount(LineAt(content, 0, lineNum)) % IndentUnit # 0

\* ------------------------------------------------------------------------
\* C9
\* ------------------------------------------------------------------------
\* C9: no Document parse returns holds the key "Charizard" in any object at
\* any depth, as the key of a value or as the name of a section.
C9_NoCharizardInDocument ==
    pc = "returned" => Charizard \notin KeysOf(Tree(heap, Root))

\* a Document with a section that holds a key is returned
C9_Witness ==
    /\ pc = "returned"
    /\ Depth(heap, Root) >= 1
    /\ Cardinality(KeysOf(Tree(heap, Root))) >= 2

\* ------------------------------------------------------------------------
\* C10
\* ------------------------------------------------------------------------
\* the statement the parser is about to read names "Charizard"
AtCharizard ==
    \/ AtSection /\ StmtName = Charizard
    \/ AtKeyValue /\ StmtKey = Charizard

\* C10 as stated: whenever the key of a key/value line or the name of a
\* section header is "Charizard", parse throws "It burns the bulb", whatever
\* the indentation of the line and the open sections.
C10_CharizardAlwaysBurns ==
    [][AtCharizard => (pc' = "thrown_parse" /\ err' = ERR_RESERVED)]_vars

\* C10, amended: parse throws "It burns the bulb" whenever the parser reads a
\* key/value line with the key "Charizard" whose indent level is at most
\* currentLevel, or a section header named "Charizard" of a stage S on a line
\* of indent level S-1 while the stack holds at least S frames.
C10_CharizardBurnsWhereItMayStand ==
    [][((AtKeyValue /\ StmtKey = Charizard /\ StmtLevel <= currentLevel)
        \/ (AtSection /\ StmtName = Charizard
            /\ StmtLevel = StmtStage - 1 /\ Len(stack) >= StmtStage))
          => (pc' = "thrown_parse" /\ err' = ERR_RESERVED)]_vars

\* parse threw "It burns the bulb" inside an open section
C10_Witness ==
    /\ pc = "thrown_parse"
    /\ err = ERR_RESERVED
    /\ Len(stack) >= 2

\* ------------------------------------------------------------------------
\* C11
\* ------------------------------------------------------------------------
\* the line reaches tokenizeValue: it holds text, starts with a multiple of 4
\* spaces and no tab, is no section header and has the key/value shape
IsKeyValueLine(raw) ==
    LET line == CleanLine(raw)
    IN /\ line # <<>>
       /\ ~hasTab(line)
       /\ indentCount(line) % IndentUnit = 0
       /\ \A stage \in 1..MaxStage : ~IsSectionLine(trim(line), stage)
       /\ KeyValueMatch(trim(line)).matched

\* the value text of a key/value line, without the surrounding blanks
ValueTextOf(raw) == trim(KeyValueMatch(trim(CleanLine(raw))).valStr)

\* the forms of a value the format names
IsQuotedString(s) == Len(s) >= 2 /\ s[1] = "\"" /\ s[Len(s)] = "\""
IsKeyword(s) == s \in {SuperEffective, NotVeryEffective, MissingNo}
IsArrayText(s) == Len(s) >= 4 /\ startsWith(s, ArrayOpen) /\ endsWith(s, ArrayClose)
IsNumberText(s) == ConvertsWhole(s, stoi(s)) \/ ConvertsWhole(s, stod(s))

\* the text, or a comma-separated segment of it when it is an array, is not
\* empty and has none of these forms
RECURSIVE HasUnrecognized(_)
HasUnrecognized(s) ==
    /\ s # <<>>
    /\ IF IsQuotedString(s) \/ IsKeyword(s) THEN FALSE
       ELSE IF IsArrayText(s)
       THEN LET segs == Segments(SubSeq(s, 3, Len(s) - 2))
            IN \E k \in 1..Len(segs) : HasUnrecognized(trim(segs[k]))
       ELSE ~IsNumberText(s)

\* C11: a key/value line whose value text, or one of the comma-separated
\* segments of its array, is not empty and is no double-quoted string, no
\* keyword in its exact spelling, no array and no number makes tokenize, and
\* so parse, throw "Target is immune!".
C11_UnrecognizedValueIsImmune ==
    [][(AtBodyLine /\ IsKeyValueLine(NextRaw)
        /\ HasUnrecognized(ValueTextOf(NextRaw)))
          => (pc' = "thrown_tokenize" /\ err' = ERR_TYPE)]_vars

\* ------------------------------------------------------------------------
\* C12
\* ------------------------------------------------------------------------
\* the key/value statement the parser is about to read has its assign token
\* and no value token after it: the next token opens another line or ends
\* the input
AtKeyValueWithoutValue ==
    /\ AtKeyValue
    /\ StmtLevel <= currentLevel
    /\ StmtKey # Charizard
    /\ TypeAt(tokens, i + 2) = "TOKEN_VINE_WHIP"
    /\ TypeAt(tokens, i + 3) \in {"TOKEN_INDENT", "TOKEN_EOF"}

\* C12: a key/value line that has a key and an assign operator and no value
\* after it makes parse throw "It hurt itself in its confusion!".
C12_MissingValueIsSyntaxError ==
    [][AtKeyValueWithoutValue
          => (pc' = "thrown_parse" /\ err' = ERR_SYNTAX)]_vars

\* ------------------------------------------------------------------------
\* tokenize called again on the same Lexer
\* ------------------------------------------------------------------------
\* bound: the number of calls made on one object
MaxCalls == 2

\* what a call came to: the text, the message thrown (NoError when the call
\* returned) and what it returned
Call(text, msg, out) == [content |-> text, err |-> msg, out |-> out]

\* getline fails in a call of tokenize made directly on a Lexer: TOKEN_EOF is
\* pushed and the member tokens is returned
TokenizeReturn ==
    /\ pc = "tokenize"
    /\ ~HasLine(content, ss)
    /\ tokens' = Append(tokens, Token("TOKEN_EOF", <<>>, lineNum, 0))
    /\ pc' = "tokenized"
    /\ UNCHANGED <<content, ss, lineNum, firstLine, parserVars, err, calls>>

\* tokenize is entered again on the same Lexer: the locals ss, lineNum and
\* firstLine are made anew, the members content and tokens are as they were
TokenizeAgain ==
    /\ pc \in {"tokenized", "thrown_tokenize"}
    /\ Len(calls) + 1 < MaxCalls
    /\ calls' = Append(calls, Call(content, err,
                                   IF pc = "tokenized" THEN tokens ELSE <<>>))
    /\ ss' = 0
    /\ lineNum' = 0
    /\ firstLine' = TRUE
    /\ pc' = "tokenize"
    /\ err' = NoError
    /\ UNCHANGED <<content, tokens, parserVars>>

NextLexer == LexLine \/ TokenizeReturn \/ TokenizeAgain

SpecLexer == Init /\ [][NextLexer]_vars

\* ------------------------------------------------------------------------
\* C13
\* ------------------------------------------------------------------------
\* C13: a call of tokenize returns the token list that the call before it on
\* the same Lexer, over the same content, returned.
C13_SameTokensOnSameLexer ==
    (pc = "tokenized" /\ calls # <<>> /\ calls[1].err = NoError)
        => tokens = calls[1].out

\* ------------------------------------------------------------------------
\* tokenize and parse from entry to exit, on new objects
\* ------------------------------------------------------------------------
\* what parse comes to: the Document it returns, as a tree, or the message
\* of the exception it throws
Returned(doc) == [err |-> NoError, out |-> doc]
Failed(msg) == [err |-> msg, out |-> EmptyMap]

RECURSIVE tokenizeFrom(_, _, _, _, _)

\* after the body of the while loop: the exception leaves tokenize, or the
\* loop goes on
tokenizeAfter(text, pos, n, toks, r) ==
    IF r.err # NoError THEN Thrown(r.err, toks \o r.toks)
    ELSE tokenizeFrom(text, pos, n, FALSE, toks \o r.toks)

\* the body of the while loop on the line got
tokenizeGot(text, got, n, first, toks) ==
    tokenizeAfter(text, got.pos, n, toks,
                  IF first THEN HeaderLine(got.line, n) ELSE BodyLine(got.line, n))

\* the while loop of tokenize from offset pos on, n lines read so far
tokenizeFrom(text, pos, n, first, toks) ==
    IF ~HasLine(text, pos)
    THEN Pushed(Append(toks, Token("TOKEN_EOF", <<>>, n, 0)))
    ELSE tokenizeGot(text, GetLine(text, pos), n + 1, first, toks)

\* Lexer(text).tokenize()
tokenize(text) == tokenizeFrom(text, 0, 0, TRUE, <<>>)

RECURSIVE parseFrom(_, _, _, _, _, _)

\* after a statement: the exception leaves parse, the loop breaks, or the
\* loop goes on
parseAfter(toks, r, rt) ==
    IF r.err = NoError
    THEN parseFrom(toks, r.i, r.stack, r.heap, r.currentLevel, rt)
    ELSE IF r.err = "break" THEN Returned(Tree(r.heap, rt))
    ELSE Failed(r.err)

\* the while loop of parse from token idx on
parseFrom(toks, idx, stk, hp, lvl, rt) ==
    IF TypeAt(toks, idx) \in {"TOKEN_EOF", "none"} THEN Returned(Tree(hp, rt))
    ELSE IF TypeAt(toks, idx) # "TOKEN_INDENT"
    THEN parseFrom(toks, idx + 1, stk, hp, lvl, rt)
    ELSE parseAfter(toks, IndentStatement(toks, idx, stk, hp, lvl), rt)

\* parse after the call of tokenize
parseTokens(r) ==
    IF r.err # NoError THEN Failed(r.err)
    ELSE parseFrom(r.toks, 0, <<Context(Root, 0)>>, <<EmptyMap>>, 0, Root)

\* BSONParser().parse(text)
parse(text) == parseTokens(tokenize(text))

\* ------------------------------------------------------------------------
\* parse called again on the same BSONParser
\* ------------------------------------------------------------------------
\* the texts of these calls: documents that end at every depth, that fail in
\* tokenize and in parse, and lines that only a fresh stack rejects
ReuseInputs ==
    {<<>>,
     <<"N", "O", "T">>,
     JoinLines(<<BULBA, StructLine(FALSE, 0)>>),
     JoinLines(<<BULBA, StructLine(FALSE, 1)>>),
     JoinLines(<<BULBA, Spaces(IndentUnit) \o SectionText(2, <<"b">>)>>),
     JoinLines(<<BULBA, <<TAB>> \o KeyValueText(<<"b">>, <<"2">>)>>),
     JoinLines(<<BULBA, StructLine(TRUE, 0), StructLine(FALSE, 1)>>),
     JoinLines(<<BULBA, StructLine(TRUE, 0), StructLine(FALSE, 0)>>),
     JoinLines(<<BULBA, StructLine(TRUE, 0),
                 Spaces(IndentUnit) \o KeyValueText(Charizard, <<"1">>)>>),
     JoinLines(<<BULBA, StructLine(TRUE, 0), StructLine(TRUE, 1),
                 StructLine(TRUE, 2), StructLine(FALSE, 3)>>)}

\* the Document a call returned: the copy of *root, whose OBJECT values share
\* their maps with the parser, and the tree it was when it was returned
Document(hp, rt) == [doc |-> hp[rt], tree |-> Tree(hp, rt)]

\* the tree a map held by value is, with the maps of the heap below it
DocTree(hp, doc) ==
    [k \in DOMAIN doc |->
        IF doc[k].type = "OBJECT"
        THEN Value("OBJECT", Tree(hp, doc[k].v))
        ELSE doc[k]]

InitReuse ==
    /\ content \in ReuseInputs
    /\ ss = 0
    /\ lineNum = 0
    /\ firstLine = TRUE
    /\ tokens = <<>>
    /\ stack = <<>>
    /\ currentLevel = 0
    /\ heap = <<>>
    /\ root = 0
    /\ i = 0
    /\ pc = "tokenize"
    /\ err = NoError
    /\ calls = <<>>

\* parse returned or threw, and is called again on the same BSONParser with
\* a text: a new Lexer is made; stack and currentLevel are as the call before
\* left them, and the maps of the Document it returned stay in the heap
ParseAgain ==
    /\ pc \in {"returned", "thrown_tokenize", "thrown_parse"}
    /\ Len(calls) + 1 < MaxCalls
    /\ calls' = Append(calls,
                       Call(content, err,
                            IF pc = "returned" THEN Document(heap, root)
                            ELSE Document(<<EmptyMap>>, Root)))
    /\ content' \in ReuseInputs
    /\ ss' = 0
    /\ lineNum' = 0
    /\ firstLine' = TRUE
    /\ tokens' = <<>>
    /\ pc' = "tokenize"
    /\ err' = NoError
    /\ UNCHANGED parserVars

NextReuse ==
    LexLine \/ LexEnd \/ ParseEnd \/ ParseSkip \/ ParseIndent \/ ParseAgain

SpecReuse == InitReuse /\ [][NextReuse]_vars

\* ------------------------------------------------------------------------
\* C14
\* ------------------------------------------------------------------------
\* the call of parse is over
CallOver == pc \in {"returned", "thrown_tokenize", "thrown_parse"}

\* C14: whatever calls were made before on the same BSONParser, a call of
\* parse throws the message, or returns the Document, that a new BSONParser
\* throws or returns for the same content; and every Document an earlier
\* call returned is still the tree it was when it was returned.
C14_OutcomeDependsOnContentOnly ==
    /\ CallOver =>
          /\ err = parse(content).err
          /\ pc = "returned" => Tree(heap, root) = parse(content).out
    /\ \A k \in 1..Len(calls) :
          calls[k].err = NoError
              => DocTree(heap, calls[k].out.doc) = calls[k].out.tree

\* a call returns a Document with a section after a call that threw inside a
\* section, and after a call that returned a Document with sections
C14_Witness ==
    /\ pc = "returned"
    /\ calls # <<>>
    /\ Depth(heap, root) >= 1
    /\ \/ calls[1].err = ERR_RESERVED
       \/ calls[1].err = NoError /\ calls[1].out.tree # EmptyMap

\* ------------------------------------------------------------------------
\* C15
\* ------------------------------------------------------------------------
\* the indices of the TOKEN_EOF tokens of a token list
EndOfInputAt(toks) == {k \in 1..Len(toks) : toks[k].type = "TOKEN_EOF"}

\* C15: every token list a call of tokenize returns ends with a TOKEN_EOF
\* token and holds no other TOKEN_EOF token.
C15_EndOfInputLastAndOnly ==
    pc = "tokenized" => EndOfInputAt(tokens) = {Len(tokens)}

\* ------------------------------------------------------------------------
\* C16
\* ------------------------------------------------------------------------
\* the offset in text after its first k lines, and the number of its lines
RECURSIVE OffsetAfter(_, _, _)
OffsetAfter(text, pos, k) ==
    IF k = 0 \/ ~HasLine(text, pos) THEN pos
    ELSE OffsetAfter(text, GetLine(text, pos).pos, k - 1)

RECURSIVE CountLines(_, _)
CountLines(text, pos) ==
    IF ~HasLine(text, pos) THEN 0
    ELSE 1 + CountLines(text, GetLine(text, pos).pos)

\* the text cut after its k-th line
PrefixLines(text, k) == SubSeq(text, 1, OffsetAfter(text, 0, k))

\* the first line at which the text, cut after it, is rejected by parse
FirstOffending(text) ==
    LET bad == {k \in 1..CountLines(text, 0) :
                   parse(PrefixLines(text, k)).err # NoError}
    IN CHOOSE k \in bad : \A j \in bad : k <= j

\* what the loop body of tokenize does with the k-th line of content
LineResult(k) ==
    IF k = 1 THEN HeaderLine(LineAt(content, 0, k), k)
    ELSE BodyLine(LineAt(content, 0, k), k)

\* C16 as stated: when parse throws, what it throws is what it throws for the
\* input cut after the first offending line: no later line has a part in it.
C16_FirstOffendingLineDecides ==
    (CallOver /\ err # NoError)
        => err = parse(PrefixLines(content, FirstOffending(content))).err

\* C16, amended: tokenize stops at the first line its loop body rejects, with
\* the error of that line and without reading a later one; when tokenize
\* accepts every line and the structural parser throws, it throws what it
\* throws for the input cut after the first offending line; and a call that
\* threw returned no Document.
C16_ScanStopsAtFirstError ==
    /\ \A k \in 1..lineNum :
          LineResult(k).err # NoError
              => (pc = "thrown_tokenize" /\ lineNum = k
                  /\ err = LineResult(k).err)
    /\ pc = "thrown_parse" =>
          /\ tokenize(content).err = NoError
          /\ err = parse(PrefixLines(content, FirstOffending(content))).err
    /\ CallOver => (pc = "returned") = (err = NoError)

\* parse threw at a statement that is not on the last line
C16_Witness ==
    /\ pc = "thrown_parse"
    /\ FirstOffending(content) < CountLines(content, 0)

\* ------------------------------------------------------------------------
\* C17
\* ------------------------------------------------------------------------
\* the text of a line before its first "zZz", and whether a text holds
\* nothing but white space
BeforeComment(raw) ==
    IF find(raw, CommentMark) = 0 THEN raw
    ELSE SubSeq(raw, 1, find(raw, CommentMark) - 1)

IsBlank(text) == \A k \in 1..Len(text) : isspace(text[k])

\* the lines read after the header that hold text before their comment
LinesKept == {k \in BodyLinesRead : ~IsBlank(BeforeComment(LineAt(content, 0, k)))}

\* the tokens of the list that come from line k
TokensOfLine(k) ==
    {j \in 1..Len(tokens) : tokens[j].type # "TOKEN_EOF" /\ tokens[j].line = k}

\* C17: in every line after the header the text from the first "zZz" on is
\* discarded: no token holds it, a line with nothing but white space before
\* it emits no token and raises no error, and while tokenize has not thrown
\* the number of TOKEN_INDENT tokens is the number of the other lines read.
C17_CommentsAndBlankLinesEmitNothing ==
    /\ \A j \in 1..Len(tokens) : find(tokens[j].literal, CommentMark) = 0
    /\ \A k \in BodyLinesRead \ LinesKept :
          /\ TokensOfLine(k) = {}
          /\ ~(pc = "thrown_tokenize" /\ lineNum = k)
    /\ pc # "thrown_tokenize" =>
          Cardinality({j \in 1..Len(tokens) : tokens[j].type = "TOKEN_INDENT"})
              = Cardinality(LinesKept)

\* parse returned for an input with a line that holds a key, a value and a
\* comment after them
C17_Witness ==
    /\ pc = "returned"
    /\ \E k \in LinesKept : find(LineAt(content, 0, k), CommentMark) # 0

\* ------------------------------------------------------------------------
\* C18
\* ------------------------------------------------------------------------
\* the texts <| <| 1, 2 |>, 3 |> and <| "a,b" |>
NestedArrayText ==
    <<"<", "|", " ", "<", "|", " ", "1", ",", " ", "2", " ", "|", ">", ",", " ", "3", " ", "|", ">">>

CommaStringText == <<"<", "|", " ", "\"", "a", ",", "b", "\"", " ", "|", ">">>

\* the input of one line that gives the key k the value text v
OneValueInput(v) == JoinLines(<<BULBA, <<"k", " ", "~", ">", " ">> \o v>>)

\* the call of parse on this input is over, and it returned a Document in
\* which the key k has the value val
ParsesTo(v, val) ==
    (CallOver /\ content = OneValueInput(v))
        => (pc = "returned" /\ heap[root] = MapPut(EmptyMap, <<"k">>, val))

\* C18: the array <| <| 1, 2 |>, 3 |> parses to the nested sequence
\* [[1, 2], 3], and in <| "a,b" |> the quoted string with its comma stays one
\* element.
C18_ArraysNestAndKeepQuotedCommas ==
    /\ ParsesTo(NestedArrayText,
                Value("ARRAY", <<Value("ARRAY", <<Value("INT", 1), Value("INT", 2)>>),
                                 Value("INT", 3)>>))
    /\ ParsesTo(CommaStringText,
                Value("ARRAY", <<Value("STRING", <<"a", ",", "b">>)>>))

\* ------------------------------------------------------------------------
\* C19
\* ------------------------------------------------------------------------
\* C19: between the statements of a parse run, and when parse returns, the
\* stack holds currentLevel + 1 frames, the frame at index k (from 0) has
\* level k, and the frame at index 0 is the root.
C19_StackLengthIsLevelPlusOne ==
    pc \in {"parse", "returned"} =>
        /\ Len(stack) = currentLevel + 1
        /\ \A k \in 1..Len(stack) : stack[k].level = k - 1
        /\ stack[1].map = root

\* a key/value line has dedented to the root after a section was opened
C19_Witness ==
    /\ pc = "parse"
    /\ Len(heap) >= 2
    /\ currentLevel = 0
    /\ Len(stack) = 1

\* ------------------------------------------------------------------------
\* C20
\* ------------------------------------------------------------------------
\* the maps of the frames of a stack
MapsOf(stk) == {stk[k].map : k \in 1..Len(stk)}

\* C20: a key/value line at indent level L below currentLevel cuts the stack
\* to L + 1 frames and sets currentLevel to L, and its key goes to the map of
\* the last frame left; a key/value line at a level above currentLevel makes
\* parse throw "The attack missed!" and leaves every map as it is; and no
\* key/value line changes a map other than that of the last frame left, so
\* none adds a key to a section that was left.
C20_KeyValueDedentsBeforeInsert ==
    [][AtKeyValue =>
          /\ StmtLevel < currentLevel =>
                (Len(stack') = StmtLevel + 1 /\ currentLevel' = StmtLevel)
          /\ StmtLevel > currentLevel =>
                (pc' = "thrown_parse" /\ err' = ERR_INDENTATION /\ heap' = heap)
          /\ pc' = "parse" =>
                StmtKey \in DOMAIN heap'[stack'[Len(stack')].map]
          /\ \A a \in 1..Len(heap) :
                (a # stack'[Len(stack')].map \/ a \notin MapsOf(stack))
                    => heap'[a] = heap[a]]_vars

\* a key/value line has dedented out of a section of stage 2 into the
\* section of stage 1 and stored its key there
C20_Witness ==
    /\ pc = "parse"
    /\ Len(heap) >= 3
    /\ currentLevel = 1
    /\ Len(stack) = 2
    /\ stack[2].map < Len(heap)
    /\ \E key \in DOMAIN heap[stack[2].map] :
          heap[stack[2].map][key].type # "OBJECT"

\* ------------------------------------------------------------------
\* Section headers: the indentation check comes first
\* ------------------------------------------------------------------

\* the header that missed (the cursor rests on its SECTION_OPEN token) would
\* also fail a later check of the branch: too few open sections, or the
\* reserved name
MissedHeaderFailsLaterCheck ==
    \/ NotEnoughBadges(stack, tokens[i + 1].level)
    \/ validateKey(tokens[i + 2].literal) # NoError

TrimmedLine(k) == trim(CleanLine(LineAt(content, 0, k)))

\* the line is classified as a header of the stage: it starts with the
\* 4-character prefix of the stage and ends with its 4-character suffix
ClassifiedAsSection(line, stage) ==
    /\ Len(line) >= 4
    /\ SubSeq(line, 1, 4) = SectionPrefix(stage)
    /\ SubSeq(line, Len(line) - 3, Len(line)) = SectionSuffix(stage)

\* the line without its first four and its last four characters
WithoutPrefixAndSuffix(line) == SubSeq(line, 5, Len(line) - 4)

FirstTokenOfLine(k) ==
    CHOOSE j \in TokensOfLine(k) : \A h \in TokensOfLine(k) : j <= h

\* C22: every line classified as a section header of stage S that the lexer
\* has taken gives TOKEN_INDENT, TOKEN_SECTION_OPEN of S, TOKEN_IDENTIFIER and
\* TOKEN_SECTION_CLOSE of S, and the identifier is the line without its
\* 4-character prefix and its 4-character suffix, 8 characters shorter than
\* the line.
C22_SectionLineTokens ==
    \A k \in BodyLinesRead : \A stage \in 1..MaxStage :
        (ClassifiedAsSection(TrimmedLine(k), stage) /\ TokensOfLine(k) # {}) =>
            LET j == FirstTokenOfLine(k)
                line == TrimmedLine(k)
            IN /\ TokensOfLine(k) = j..(j + 3)
               /\ tokens[j].type = "TOKEN_INDENT"
               /\ tokens[j + 1] = Token("TOKEN_SECTION_OPEN", <<>>, k, stage)
               /\ tokens[j + 2].type = "TOKEN_IDENTIFIER"
               /\ tokens[j + 2].literal = WithoutPrefixAndSuffix(line)
               /\ Len(tokens[j + 2].literal) = Len(line) - 8
               /\ tokens[j + 3] = Token("TOKEN_SECTION_CLOSE", <<>>, k, stage)

\* ------------------------------------------------------------------
\* Arrays: the elements and the tokens consumed
\* ------------------------------------------------------------------

\* the pieces of a text between its commas, the last one included
RECURSIVE SplitAtCommas(_, _)
SplitAtCommas(text, piece) ==
    IF text = <<>> THEN <<piece>>
    ELSE IF Head(text) = "," THEN <<piece>> \o SplitAtCommas(Tail(text), <<>>)
    ELSE SplitAtCommas(Tail(text), Append(piece, Head(text)))

\* the value a piece of text stands for: a quoted string, a keyword, an
\* array of the values of its pieces that are not blank, or a number
RECURSIVE ValueOfText(_)
RECURSIVE ValuesOfPieces(_)
ValuesOfPieces(pieces) ==
    IF pieces = <<>> THEN <<>>
    ELSE IF IsBlank(Head(pieces)) THEN ValuesOfPieces(Tail(pieces))
    ELSE <<ValueOfText(trim(Head(pieces)))>> \o ValuesOfPieces(Tail(pieces))

ValueOfText(s) ==
    IF IsQuotedString(s) THEN Value("STRING", SubSeq(s, 2, Len(s) - 1))
    ELSE IF s = SuperEffective THEN Value("BOOL", TRUE)
    ELSE IF s = NotVeryEffective THEN Value("BOOL", FALSE)
    ELSE IF s = MissingNo THEN Value("NULL_TYPE", 0)
    ELSE IF IsArrayText(s)
    THEN Value("ARRAY", ValuesOfPieces(SplitAtCommas(SubSeq(s, 3, Len(s) - 2), <<>>)))
    ELSE NumberValue(s).val

\* the 1-based index of the TOKEN_ARRAY_END that closes the array whose
\* TOKEN_ARRAY_START is at index j - 1 when depth is 1; 0 when there is none
RECURSIVE MatchingEnd(_, _, _)
MatchingEnd(toks, j, depth) ==
    IF j > Len(toks) THEN 0
    ELSE IF toks[j].type = "TOKEN_ARRAY_START" THEN MatchingEnd(toks, j + 1, depth + 1)
    ELSE IF toks[j].type = "TOKEN_ARRAY_END"
    THEN IF depth = 1 THEN j ELSE MatchingEnd(toks, j + 1, depth - 1)
    ELSE MatchingEnd(toks, j + 1, depth)

\* the parser is at a key/value statement whose value is an array
AtArrayValue == AtKeyValue /\ TypeAt(tokens, i + 3) = "TOKEN_ARRAY_START"

\* the text of the value of the statement at the cursor
StmtValueText == ValueTextOf(LineAt(content, 0, tokens[i + 1].line))

\* C23: when a key/value statement with an array value is accepted, the
\* value stored under the key is the array of the values of the non-blank
\* comma-separated pieces of the value text, in source order, and the cursor
\* has moved from the TOKEN_ARRAY_START to just behind its matching
\* TOKEN_ARRAY_END.
C23_ArrayIsItsSegmentsInOrder ==
    [][(AtArrayValue /\ pc' = "parse") =>
          /\ StmtKey \in DOMAIN heap'[back(stack').map]
          /\ heap'[back(stack').map][StmtKey] = ValueOfText(StmtValueText)
          /\ heap'[back(stack').map][StmtKey].type = "ARRAY"
          /\ i' = MatchingEnd(tokens, i + 5, 1)]_vars

\* parse returned a document for an array with a doubled comma
C23_Witness ==
    /\ pc = "returned"
    /\ find(content, <<",", ",">>) # 0
    /\ \E key \in DOMAIN heap[root] :
          heap[root][key] = Value("ARRAY", <<Value("INT", 1), Value("INT", 2)>>)

\* ------------------------------------------------------------------
\* Numbers: Int or Float
\* ------------------------------------------------------------------

\* an integer text: an optional sign and then digits only
IsIntegerText(s) ==
    LET body == IF s # <<>> /\ s[1] \in {"+", "-"} THEN Tail(s) ELSE s
    IN body # <<>> /\ \A k \in 1..Len(body) : body[k] \in Digits

\* the digits of an integer text, without the sign and the leading zeros
RECURSIVE WithoutZeros(_)
WithoutZeros(body) ==
    IF Len(body) > 1 /\ Head(body) = "0" THEN WithoutZeros(Tail(body)) ELSE body

Magnitude(s) == WithoutZeros(IF s[1] \in {"+", "-"} THEN Tail(s) ELSE s)

\* of two digit sequences of the same length, the first is not the larger
RECURSIVE NotLarger(_, _)
NotLarger(a, b) ==
    IF a = <<>> THEN TRUE
    ELSE IF Head(a) # Head(b) THEN DigitValue(Head(a)) < DigitValue(Head(b))
    ELSE NotLarger(Tail(a), Tail(b))

\* the largest magnitudes of an int: 2147483647, and 2147483648 below zero
LargestInt == <<"2", "1", "4", "7", "4", "8", "3", "6", "4", "7">>
LargestBelowZero == <<"2", "1", "4", "7", "4", "8", "3", "6", "4", "8">>

\* the text is an integer text whose value fits the 32-bit int
FitsInt(s) ==
    /\ IsIntegerText(s)
    /\ \/ Len(Magnitude(s)) < Len(LargestInt)
       \/ /\ Len(Magnitude(s)) = Len(LargestInt)
          /\ NotLarger(Magnitude(s),
                       IF s[1] = "-" THEN LargestBelowZero ELSE LargestInt)

\* the integer an integer text that fits denotes, summed up below zero
RECURSIVE BelowZero(_, _)
BelowZero(body, acc) ==
    IF body = <<>> THEN acc
    ELSE BelowZero(Tail(body), 10 * acc - DigitValue(Head(body)))

IntegerOf(s) ==
    IF s[1] = "-" THEN BelowZero(Magnitude(s), 0)
    ELSE 0 - BelowZero(Magnitude(s), 0)

NumberTokens == {j \in 1..Len(tokens) : tokens[j].type = "TOKEN_NUMBER"}

\* C24: the parser converts the text of every TOKEN_NUMBER in the token list
\* without a type error, to an Int of the value of the text exactly when the
\* text is an integer that fits the 32-bit int and to a Float otherwise; and
\* no "Target is immune!" of the structural parser is raised at a
\* TOKEN_NUMBER.
C24_NumberIsIntOrFloat ==
    /\ \A j \in NumberTokens :
          LET r == NumberValue(tokens[j].literal)
          IN /\ r.err = NoError
             /\ r.val.type \in {"INT", "FLOAT"}
             /\ (r.val.type = "INT") = FitsInt(tokens[j].literal)
             /\ FitsInt(tokens[j].literal) => r.val.v = IntegerOf(tokens[j].literal)
    /\ (pc = "thrown_parse" /\ err = ERR_TYPE) =>
          (i >= 1 /\ tokens[i].type # "TOKEN_NUMBER")

\* parse returned a document that holds, as a Float, an integer text one
\* above the largest int
C24_Witness ==
    /\ pc = "returned"
    /\ \E key \in DOMAIN heap[root] :
          /\ heap[root][key].type = "FLOAT"
          /\ heap[root][key].v = LargestBelowZero

\* ------------------------------------------------------------------
\* Termination of the structural parser
\* ------------------------------------------------------------------

\* the run of the parser loop: the program is sequential, so a step of the
\* loop that can be taken is taken
\* the inputs of the runs checked for termination: the well-nested documents,
\* and each odd line, odd section line and value line alone under the header.
\* Arrays of numbers are left out (their conversion is what C24 is about):
\* enabledness is evaluated without sharing, which makes them too costly here.
ArrayOfNumbers(v) ==
    /\ startsWith(v, ArrayOpen)
    /\ \E k \in 1..Len(v) : v[k] \in Digits

LiveLines ==
    OddLines \cup OddSectionLines
    \cup {<<"k", " ", "~", ">">> \o (IF v = <<>> THEN v ELSE <<" ">> \o v) :
             v \in {w \in ValueTexts : ~ArrayOfNumbers(w)}}

LiveInputs ==
    {JoinLines(<<BULBA>> \o d) :
        d \in WellNested(MaxLines - 1, 0) \cup {<<l>> : l \in LiveLines}}

InitLive == Init /\ content \in LiveInputs

SpecLive ==
    /\ InitLive
    /\ [][Next]_vars
    /\ WF_vars(ParseSkip)
    /\ WF_vars(ParseIndent)
    /\ WF_vars(ParseEnd)

ParseOver == pc \in {"returned", "thrown_parse"}

\* C25: every step of the parser loop either ends the run or moves the
\* cursor forward, the cursor never leaves the token list, a run that returns
\* a document has its cursor on TOKEN_EOF, and every run of the parser ends,
\* with a document or with an error.
C25_ParserTerminates ==
    /\ [][pc = "parse" => (pc' # "parse" \/ i' > i)]_vars
    /\ [](pc = "parse" => i < Len(tokens))
    /\ [](pc = "returned" => TypeAt(tokens, i) = "TOKEN_EOF")
    /\ (pc = "parse" ~> ParseOver)

\* the parser returned after a run over several statements, an array among
\* them
C25_Witness ==
    /\ pc = "returned"
    /\ i = Len(tokens) - 1
    /\ Len(tokens) >= 10
    /\ \E j \in 1..Len(tokens) : tokens[j].type = "TOKEN_ARRAY_START"

\* ------------------------------------------------------------------
\* The context stack is a path of the tree
\* ------------------------------------------------------------------

\* the addresses of the objects of the tree below the map at address a,
\* that map included
RECURSIVE ReachableFrom(_, _)
ReachableFrom(hp, a) ==
    {a} \cup UNION {ReachableFrom(hp, hp[a][k].v) :
                       k \in {x \in DOMAIN hp[a] : hp[a][x].type = "OBJECT"}}

\* the object of frame k is stored under a key of the object of frame k - 1
StoredInFrameBefore(k) ==
    \E key \in DOMAIN heap[stack[k - 1].map] :
        /\ heap[stack[k - 1].map][key].type = "OBJECT"
        /\ heap[stack[k - 1].map][key].v = stack[k].map

\* C27: between the statements of a parse run, and when it has returned, the
\* context stack is a path of the tree being built: frame 0 is the root, the
\* object of every later frame is the value now stored under a key of the
\* object of the frame before, and so the object of every frame, the one
\* insertions go to included, is reachable from the root that is returned.
C27_StackIsPathOfTree ==
    pc \in {"parse", "returned"} =>
        /\ stack # <<>>
        /\ stack[1].map = root
        /\ \A k \in 2..Len(stack) : StoredInFrameBefore(k)
        /\ MapsOf(stack) \subseteq ReachableFrom(heap, root)

\* two sections are open, and an earlier section of the run was replaced, so
\* the heap holds an object that is no longer in the tree
C27_Witness ==
    /\ pc = "parse"
    /\ Len(stack) >= 3
    /\ Cardinality(ReachableFrom(heap, root)) < Len(heap)

\* ------------------------------------------------------------------
\* Repeated keys
\* ------------------------------------------------------------------

\* the object the statement at the cursor has written to, after the step
WrittenMap == heap'[back(stack').map]

\* the key of the statement at the cursor is already in the object the
\* statement writes to: for a key/value line the object of the frame of its
\* level, for a section header the object of the frame of the stage before
KeyValueRepeats ==
    /\ AtKeyValue
    /\ StmtLevel + 1 <= Len(stack)
    /\ StmtKey \in DOMAIN heap[stack[StmtLevel + 1].map]

SectionRepeats ==
    /\ AtSection
    /\ StmtStage <= Len(stack)
    /\ StmtName \in DOMAIN heap[stack[StmtStage].map]

\* C28: a repeated name is no error. An accepted key/value line leaves its
\* object with the keys it had and its own key, which now holds the value of
\* the line, whatever it held before; an accepted section header leaves the
\* parent with the keys it had and the section's name, which now holds a new
\* empty object, whatever it held before; and a statement whose name is
\* already in its object fails only as it would with a new name.
C28_LaterAssignmentReplaces ==
    [][/\ (AtKeyValue /\ pc' = "parse") =>
             /\ DOMAIN WrittenMap = DOMAIN heap[back(stack').map] \cup {StmtKey}
             /\ WrittenMap[StmtKey] = parseValueFromTokens(tokens, i + 3).val
             /\ \A key \in DOMAIN heap[back(stack').map] \ {StmtKey} :
                   WrittenMap[key] = heap[back(stack').map][key]
       /\ (AtSection /\ pc' = "parse") =>
             LET parent == stack'[Len(stack') - 1].map
                 section == back(stack').map
             IN /\ DOMAIN heap'[parent] = DOMAIN heap[parent] \cup {StmtName}
                /\ heap'[parent][StmtName] = Value("OBJECT", section)
                /\ section = Len(heap) + 1
                /\ heap'[section] = EmptyMap
                /\ \A key \in DOMAIN heap[parent] \ {StmtName} :
                      heap'[parent][key] = heap[parent][key]
       /\ (KeyValueRepeats /\ StmtLevel <= currentLevel
              /\ parseValueFromTokens(tokens, i + 3).err = NoError) =>
             pc' = "parse"
       /\ (SectionRepeats /\ StmtLevel = StmtStage - 1) => pc' = "parse"]_vars

\* parse returned a document in which a section name was reused after the
\* first section of that name had taken a key: the name holds an empty
\* object, and the old object with its key is no longer in the tree
C28_Witness ==
    /\ pc = "returned"
    /\ \E key \in DOMAIN heap[root] :
          /\ heap[root][key].type = "OBJECT"
          /\ heap[heap[root][key].v] = EmptyMap
    /\ \E a \in 1..Len(heap) :
          /\ a \notin ReachableFrom(heap, root)
          /\ heap[a] # EmptyMap

\* ------------------------------------------------------------------
\* The shape of the token list
\* ------------------------------------------------------------------

ScalarTypes == {"TOKEN_STRING", "TOKEN_NUMBER", "TOKEN_BOOL", "TOKEN_NULL"}

LineStartTypes == {"TOKEN_INDENT", "TOKEN_EOF"}

TypeOf(j) == IF j <= Len(tokens) THEN tokens[j].type ELSE "none"

\* the index behind the value that starts at index j of the list: j itself
\* when no value starts there, 0 when an array that starts there is not closed
ValueEnd(j) ==
    IF TypeOf(j) \in ScalarTypes THEN j + 1
    ELSE IF TypeOf(j) = "TOKEN_ARRAY_START"
    THEN IF MatchingEnd(tokens, j + 1, 1) = 0 THEN 0
         ELSE MatchingEnd(tokens, j + 1, 1) + 1
    ELSE j

\* the tokens of the value between j and e are scalars, commas and array
\* marks only
ValueTokensOnly(j, e) ==
    \A m \in j..(e - 1) :
        TypeOf(m) \in ScalarTypes
                      \cup {"TOKEN_ARRAY_START", "TOKEN_ARRAY_END", "TOKEN_COMMA"}

\* the tokens behind the TOKEN_INDENT at index j are those of a section
\* header or those of a key/value line
SectionShape(j) ==
    /\ TypeOf(j + 1) = "TOKEN_SECTION_OPEN"
    /\ TypeOf(j + 2) = "TOKEN_IDENTIFIER"
    /\ TypeOf(j + 3) = "TOKEN_SECTION_CLOSE"
    /\ TypeOf(j + 4) \in LineStartTypes

KeyValueShape(j) ==
    /\ TypeOf(j + 1) = "TOKEN_IDENTIFIER"
    /\ TypeOf(j + 2) = "TOKEN_VINE_WHIP"
    /\ ValueEnd(j + 3) # 0
    /\ ValueTokensOnly(j + 3, ValueEnd(j + 3))
    /\ TypeOf(ValueEnd(j + 3)) \in LineStartTypes

StatementShape(j) ==
    IF TypeOf(j + 1) = "TOKEN_SECTION_OPEN" THEN SectionShape(j)
    ELSE KeyValueShape(j)

\* C29: in the token list a tokenize call has returned every TOKEN_INDENT is
\* followed by the three tokens of a section header or by an identifier, the
\* arrow and at most one value whose array marks are balanced, and then by
\* the next TOKEN_INDENT or TOKEN_EOF; so the structural parser never throws
\* "It hurt itself in its confusion!", its cursor rests on nothing but the
\* TOKEN_HEADER at the front, a TOKEN_INDENT or TOKEN_EOF (the branch that
\* skips any other token is never taken), and that message comes from
\* tokenize alone.
C29_TokenListIsWellFormed ==
    /\ Tokenized =>
          \A j \in 1..Len(tokens) :
              tokens[j].type = "TOKEN_INDENT" => StatementShape(j)
    /\ pc = "thrown_parse" => err # ERR_SYNTAX
    /\ pc = "parse" =>
          \/ TypeAt(tokens, i) \in LineStartTypes
          \/ (i = 0 /\ TypeAt(tokens, i) = "TOKEN_HEADER")
    /\ err = ERR_SYNTAX => pc = "thrown_tokenize"

\* parse returned for a token list with a section header and an array
C29_Witness ==
    /\ pc = "returned"
    /\ \E j \in 1..Len(tokens) : tokens[j].type = "TOKEN_SECTION_OPEN"
    /\ \E j \in 1..Len(tokens) : tokens[j].type = "TOKEN_ARRAY_START"

\* ------------------------------------------------------------------
\* The keys of a returned document
\* ------------------------------------------------------------------

IsIdentifier(key) ==
    /\ key # <<>>
    /\ \A k \in 1..Len(key) : key[k] \in IdentChars

\* C30: every key of every object of a returned document, the names of its
\* sections included, is a non-empty string of ASCII letters, digits and
\* underscores.
C30_KeysAreIdentifiers ==
    pc = "returned" => \A key \in KeysOf(Tree(heap, root)) : IsIdentifier(key)

\* ------------------------------------------------------------------
\* The TypeScript parser (ts-bson/src/parser.ts) on the same token lists
\* ------------------------------------------------------------------
\* Its documents are trees: the v of an OBJECT is the map itself. Number(literal)
\* yields a JavaScript number, kept here as the text it was converted from.

ResultTS(e, map, idx) == [err |-> e, map |-> map, i |-> idx]

StatementTS(e, key, val, idx) == [err |-> e, key |-> key, val |-> val, i |-> idx]

ValueTS(e, val, idx) == [err |-> e, val |-> val, i |-> idx]

validateKeyTS(key) == IF key = Charizard THEN ERR_RESERVED ELSE NoError

RECURSIVE parseValueFromTokensTS(_, _)
RECURSIVE parseArrayTS(_, _, _)
RECURSIVE parseBlockTS(_, _, _)

\* the array loop went over one element
ArrayElementTS(toks, arr, r) ==
    IF r.err # NoError THEN r
    ELSE parseArrayTS(toks, r.i, Append(arr, r.val))

\* the while loop of case TokenType.ARRAY_START; curr is 0-based
parseArrayTS(toks, curr, arr) ==
    IF curr >= Len(toks) THEN ValueTS(ERR_SYNTAX, Value("ARRAY", arr), curr)
    ELSE IF toks[curr + 1].type = "TOKEN_ARRAY_END"
    THEN ValueTS(NoError, Value("ARRAY", arr), curr + 1)
    ELSE IF toks[curr + 1].type = "TOKEN_COMMA"
    THEN parseArrayTS(toks, curr + 1, arr)
    ELSE ArrayElementTS(toks, arr, parseValueFromTokensTS(toks, curr))

parseValueFromTokensTS(toks, index) ==
    IF index >= Len(toks) THEN ValueTS(ERR_SYNTAX, Value("NULL_TYPE", 0), index)
    ELSE CASE toks[index + 1].type = "TOKEN_STRING" ->
                ValueTS(NoError, Value("STRING", toks[index + 1].literal), index + 1)
           [] toks[index + 1].type = "TOKEN_NUMBER" ->
                ValueTS(NoError, Value("NUMBER", toks[index + 1].literal), index + 1)
           [] toks[index + 1].type = "TOKEN_BOOL" ->
                ValueTS(NoError, Value("BOOL", toks[index + 1].literal = TrueLit),
                        index + 1)
           [] toks[index + 1].type = "TOKEN_NULL" ->
                ValueTS(NoError, Value("NULL_TYPE", 0), index + 1)
           [] toks[index + 1].type = "TOKEN_ARRAY_START" ->
                parseArrayTS(toks, index + 1, <<>>)
           [] OTHER -> ValueTS(ERR_TYPE, Value("NULL_TYPE", 0), index)

\* Case 2 of parseStatement after the arrow: the value r was parsed
KeyValueTS(key, r) == StatementTS(r.err, key, r.val, r.i)

\* Case 1 of parseStatement after SECTION_CLOSE: the child block was parsed
SectionTS(key, child) == StatementTS(child.err, key, Value("OBJECT", child.map), child.i)

\* parseStatement: index is at the INDENT token
parseStatementTS(toks, index, blockLevel) ==
    IF index + 1 >= Len(toks) THEN StatementTS(ERR_SYNTAX, <<>>, Value("NULL_TYPE", 0), index)
    ELSE IF toks[index + 2].type = "TOKEN_SECTION_OPEN"
    THEN IF toks[index + 2].level # blockLevel + 1
         THEN StatementTS(ERR_BADGES, <<>>, Value("NULL_TYPE", 0), index)
         ELSE IF TypeAt(toks, index + 2) # "TOKEN_IDENTIFIER"
         THEN StatementTS(ERR_SYNTAX, <<>>, Value("NULL_TYPE", 0), index)
         ELSE IF validateKeyTS(toks[index + 3].literal) # NoError
         THEN StatementTS(validateKeyTS(toks[index + 3].literal), <<>>,
                          Value("NULL_TYPE", 0), index)
         ELSE IF TypeAt(toks, index + 3) # "TOKEN_SECTION_CLOSE"
         THEN StatementTS(ERR_SYNTAX, <<>>, Value("NULL_TYPE", 0), index)
         ELSE SectionTS(toks[index + 3].literal,
                        parseBlockTS(toks, index + 4, toks[index + 2].level))
    ELSE IF toks[index + 2].type = "TOKEN_IDENTIFIER"
    THEN IF validateKeyTS(toks[index + 2].literal) # NoError
         THEN StatementTS(validateKeyTS(toks[index + 2].literal), <<>>,
                          Value("NULL_TYPE", 0), index)
         ELSE IF TypeAt(toks, index + 2) # "TOKEN_VINE_WHIP"
         THEN StatementTS(ERR_SYNTAX, <<>>, Value("NULL_TYPE", 0), index)
         ELSE KeyValueTS(toks[index + 2].literal,
                         parseValueFromTokensTS(toks, index + 3))
    ELSE StatementTS(ERR_SYNTAX, <<>>, Value("NULL_TYPE", 0), index)

\* { [key]: value, ...siblings }: a key of the siblings wins
SpreadTS(st, siblings) ==
    IF siblings.err # NoError THEN siblings
    ELSE ResultTS(NoError,
                  [k \in (DOMAIN siblings.map) \cup {st.key} |->
                      IF k \in DOMAIN siblings.map THEN siblings.map[k] ELSE st.val],
                  siblings.i)

\* parseBlock after its statement st: the rest of the block
SiblingsTS(toks, blockLevel, st) ==
    IF st.err # NoError THEN ResultTS(st.err, EmptyMap, st.i)
    ELSE SpreadTS(st, parseBlockTS(toks, st.i, blockLevel))

\* parseBlock at an INDENT token deeper than the block
DeeperTS(toks, index, expectedLevel) ==
    IF /\ index + 1 < Len(toks)
       /\ toks[index + 2].type = "TOKEN_SECTION_OPEN"
       /\ expectedLevel = toks[index + 2].level - 1
    THEN ResultTS(ERR_BADGES, EmptyMap, index)
    ELSE ResultTS(ERR_INDENTATION, EmptyMap, index)

parseBlockTS(toks, index, blockLevel) ==
    IF index >= Len(toks) THEN ResultTS(NoError, EmptyMap, index)
    ELSE IF toks[index + 1].type = "TOKEN_EOF" THEN ResultTS(NoError, EmptyMap, index)
    ELSE IF toks[index + 1].type = "TOKEN_INDENT"
    THEN IF toks[index + 1].level < blockLevel
         THEN ResultTS(NoError, EmptyMap, index)
         ELSE IF toks[index + 1].level > blockLevel
         THEN DeeperTS(toks, index, toks[index + 1].level)
         ELSE SiblingsTS(toks, blockLevel,
                         parseStatementTS(toks, index, blockLevel))
    ELSE parseBlockTS(toks, index + 1, blockLevel)

\* parse of parser.ts behind its call of tokenize
parseTS(toks) ==
    IF toks = <<>> THEN parseBlockTS(toks, 0, 0)
    ELSE IF toks[1].type # "TOKEN_HEADER" THEN ResultTS(ERR_HEADER, EmptyMap, 0)
    ELSE parseBlockTS(toks, 1, 0)

\* a value with every number taken as a number only: C++ has Int and Float,
\* TypeScript one number type
RECURSIVE NumbersAlike(_)
NumbersAlike(val) ==
    IF val.type \in {"INT", "FLOAT", "NUMBER"} THEN Value("NUMBER", 0)
    ELSE IF val.type = "ARRAY"
    THEN Value("ARRAY", [k \in DOMAIN val.v |-> NumbersAlike(val.v[k])])
    ELSE IF val.type = "OBJECT"
    THEN Value("OBJECT", [k \in DOMAIN val.v |-> NumbersAlike(val.v[k])])
    ELSE val

SameDocument(a, b) ==
    NumbersAlike(Value("OBJECT", a)) = NumbersAlike(Value("OBJECT", b))

\* C26: on the token list the lexer has returned, the C++ parser and the
\* TypeScript parser both return a document, and the two are equal, or both
\* throw, with the same message.
C26_SameOutcomeAsTypeScript ==
    /\ pc = "returned" =>
          /\ parseTS(tokens).err = NoError
          /\ SameDocument(parseTS(tokens).map, Tree(heap, root))
    /\ pc = "thrown_parse" => parseTS(tokens).err = err

====
